---------------------------- MODULE Spec2Model ----------------------------
(***************************************************************************)
(* A model of the gcache LRU and ARC caches (src/lru.go, the ARC engine in *)
(* src/unnamed/part_001) and of the read-through loader of src/cache.go.   *)
(*                                                                         *)
(* The cache lock (baseCache.mu) and the single-flight mutex are explicit: *)
(* a critical section of the code is one action that takes the lock and    *)
(* runs the section's body, followed by an action that releases the lock.  *)
(* User functions invoked inside a section are recorded in `invoked`.      *)
(***************************************************************************)
EXTENDS Integers, Sequences, FiniteSets, TLC

\* ------------------------------------------------------------- bounds
NumThreads == 3
NumSharers == 2
NumKeys    == 3
NumVals    == 2
MaxSize    == 2
MaxTime    == 1
MaxTTL     == 0
MaxLookups == 2
MaxEvents  == 4

\* ---------------------------------------------------------- constants
NoExp   == -1      \* item.expiration == nil
NoTTL   == -1      \* a nil *time.Duration
Free    == 0       \* an unlocked mutex
EncBase == 100     \* the serialize hook's encoding: v is stored as EncBase + v

Threads == 1..NumThreads
Sharers == 1..NumSharers     \* the threads of a workload of every operation
Keys    == 1..NumKeys
Vals    == 1..NumVals
TTLs    == 0..MaxTTL

VARIABLES
  cfg,       \* the builder's configuration and the workload (never changes)
  c,         \* the cache: items, evictList (LRU); items, t1, t2, b1, b2, part (ARC)
  hits,      \* stats.hitCount
  misses,    \* stats.missCount
  now,       \* the instant the configured Clock returns (c.clock.Now())
  wall,      \* the instant time.Now() returns
  mu,        \* holder of baseCache.mu (write lock), or Free
  gmu,       \* holder of the single-flight Group's mutex, or Free
  flight,    \* the single-flight table: key -> pending call
  pc,        \* per thread: where it is in its current operation
  op,        \* per thread: the current (or last) operation and its arguments
  loc,       \* per thread: the result of the lookup it has made
  ret,       \* per thread: what its last completed operation returned
  prev,      \* per thread: the operation completed before the last one
  invoked,   \* the user functions invoked in the current critical section
  cnt        \* the counters kept by the test callbacks and loader

vars == <<cfg, c, hits, misses, now, wall, mu, gmu, flight, pc, op, loc, ret,
          prev, invoked, cnt>>

\* ------------------------------------------------------ list helpers
\* container/list as a sequence, front first.
Back(s) == s[Len(s)]

Has(s, k) == \E i \in 1..Len(s) : s[i] = k

Without(s, k) == SelectSeq(s, LAMBDA x : x # k)

PushFrontRaw(s, k) == <<k>> \o s

ButLast(s) == SubSeq(s, 1, Len(s) - 1)

Min(a, b) == IF a < b THEN a ELSE b

Max(a, b) == IF a > b THEN a ELSE b

Drop(f, k) == [x \in DOMAIN f \ {k} |-> f[x]]

Put(f, k, v) == [x \in DOMAIN f \cup {k} |-> IF x = k THEN v ELSE f[x]]

\* ------------------------------------------------------ user functions
\* SerializeFunc of the tests: an encoding of the value (gob), failing on the
\* values the configuration names.
serializeFunc(k, v) ==
  IF v \in cfg.serFail THEN [val |-> v, err |-> "serialize"]
  ELSE [val |-> EncBase + v, err |-> "nil"]

\* DeserializeFunc of the tests: decodes what serializeFunc wrote, fails on
\* anything else.
deserializeFunc(k, s) ==
  IF s > EncBase THEN [val |-> s - EncBase, err |-> "nil"]
  ELSE [val |-> 0, err |-> "deserialize"]

\* ------------------------------------------------------ working record
\* The cache state an operation's body works on, with the user functions it
\* has invoked so far (cb) and whether it dereferenced nil (fault).
Work(cache) ==
  [c |-> cache, cb |-> <<>>, fault |-> FALSE, err |-> "nil", found |-> FALSE,
   val |-> 0, old |-> 0]

Call(r, fn, k, v) == [r EXCEPT !.cb = Append(@, <<fn, k, v>>)]

evictedFunc(r, k, v) == IF cfg.evictedFunc THEN Call(r, "on_evicted", k, v) ELSE r

addedFunc(r, k, v) == IF cfg.addedFunc THEN Call(r, "on_added", k, v) ELSE r

purgeVisitorFunc(r, k, v) == IF cfg.purgeVisitorFunc THEN Call(r, "on_purge_visit", k, v) ELSE r

\* A faulty check: no entry is ever taken for expired.
IsExpired_never(item, t) == FALSE

\* lruItem.IsExpired / arcItem.IsExpired: expiration.Before(now).
IsExpired(item, t) == item.expiration # NoExp /\ item.expiration < t

\* The item of key k after a write of value v: a new item has no expiration,
\* an existing one keeps the expiration it has.
Written(items, k, v) ==
  IF k \in DOMAIN items THEN [items[k] EXCEPT !.value = v]
  ELSE [value |-> v, expiration |-> NoExp]

\* "if c.expiration != nil { item.expiration = now + *c.expiration }"
DefaultExpiration(r, k) ==
  IF cfg.expiration # NoTTL
  THEN [r EXCEPT !.c.items[k].expiration = now + cfg.expiration]
  ELSE r

\* "item.expiration = now + ttl" on the item a set returned.
SetExpiration(r, k, ttl) == [r EXCEPT !.c.items[k].expiration = now + ttl]

\* ================================================================ LRU
MoveToFront(s, k) == IF Has(s, k) THEN <<k>> \o Without(s, k) ELSE s

\* LRUCache.init
LRU_init == [items |-> <<>>, evictList |-> <<>>, t1 |-> <<>>, t2 |-> <<>>,
             b1 |-> <<>>, b2 |-> <<>>, part |-> 0]

\* A faulty removal: the entry goes without on_evicted being invoked.
LRU_removeElement_silent(r, k) ==
  [r EXCEPT !.c.evictList = Without(@, k), !.c.items = Drop(@, k)]

\* LRUCache.removeElement
LRU_removeElement(r, k) ==
  evictedFunc([r EXCEPT !.c.evictList = Without(@, k), !.c.items = Drop(@, k)],
              k, r.c.items[k].value)

\* A faulty evict: it removes nothing.
LRU_evict_nothing(r) == r

\* LRUCache.evict(1)
LRU_evict(r) ==
  IF r.c.evictList = <<>> THEN r ELSE LRU_removeElement(r, Back(r.c.evictList))

\* A faulty set: the entry is written, with the value as given, before the
\* serialization error is returned.
LRU_set_late(r, key, value) ==
  LET ser == IF cfg.serde THEN serializeFunc(key, value)
             ELSE [val |-> value, err |-> "nil"]
      r0  == IF cfg.serde THEN Call(r, "serialize", key, value) ELSE r
      r1  == IF key \in DOMAIN r0.c.items
             THEN [r0 EXCEPT !.c.evictList = MoveToFront(@, key),
                             !.c.items = Put(@, key, Written(r0.c.items, key, ser.val))]
             ELSE LET e == IF Len(r0.c.evictList) >= cfg.size
                           THEN LRU_evict(r0) ELSE r0
                  IN  [e EXCEPT !.c.evictList = PushFrontRaw(@, key),
                                !.c.items = Put(@, key, Written(e.c.items, key, ser.val))]
  IN  IF ser.err # "nil" THEN [r1 EXCEPT !.err = ser.err]
      ELSE addedFunc(DefaultExpiration(r1, key), key, ser.val)

\* LRUCache.set: serialize, then update in place or evict and insert, then the
\* default expiration, then on_added.
LRU_set(r, key, value) ==
  LET ser == IF cfg.serde THEN serializeFunc(key, value)
             ELSE [val |-> value, err |-> "nil"]
      r0  == IF cfg.serde THEN Call(r, "serialize", key, value) ELSE r
  IN  IF ser.err # "nil" THEN [r0 EXCEPT !.err = ser.err]
      ELSE
        LET r1 == IF key \in DOMAIN r0.c.items
                  THEN [r0 EXCEPT !.c.evictList = MoveToFront(@, key),
                                  !.c.items = Put(@, key, Written(r0.c.items, key, ser.val))]
                  ELSE LET e == IF Len(r0.c.evictList) >= cfg.size
                                THEN LRU_evict(r0) ELSE r0
                       IN  [e EXCEPT !.c.evictList = PushFrontRaw(@, key),
                                     !.c.items = Put(@, key, Written(e.c.items, key, ser.val))]
            r2 == DefaultExpiration(r1, key)
        IN  addedFunc(r2, key, ser.val)

\* A faulty getValue: a hit returns the value without moving the entry to
\* the front of the list.
LRU_getValue_noTouch(r, key) ==
  IF key \in DOMAIN r.c.items
  THEN IF ~IsExpired(r.c.items[key], now)
       THEN [r EXCEPT !.found = TRUE, !.val = r.c.items[key].value]
       ELSE [LRU_removeElement(r, key) EXCEPT !.err = "KeyNotFound"]
  ELSE [r EXCEPT !.err = "KeyNotFound"]

\* LRUCache.getValue, without the statistics (see getValue below).
LRU_getValue(r, key) ==
  IF key \in DOMAIN r.c.items
  THEN IF ~IsExpired(r.c.items[key], now)
       THEN [r EXCEPT !.c.evictList = MoveToFront(@, key),
                      !.found = TRUE, !.val = r.c.items[key].value]
       ELSE [LRU_removeElement(r, key) EXCEPT !.err = "KeyNotFound"]
  ELSE [r EXCEPT !.err = "KeyNotFound"]

\* LRUCache.remove
LRU_remove(r, key) ==
  IF key \in DOMAIN r.c.items
  THEN [LRU_removeElement(r, key) EXCEPT !.found = TRUE]
  ELSE r

\* The visits of a Purge: the keys of c.items in some order (Go's map order).
RECURSIVE Visit(_, _, _)
Visit(r, items, order) ==
  IF order = <<>> THEN r
  ELSE Visit(purgeVisitorFunc(r, Head(order), items[Head(order)].value),
             items, Tail(order))

\* The orders in which a range over a map with keys S can visit them: the
\* order of a Go map range is unspecified, so every permutation of S.
KeyOrders(S) ==
  {s \in [1..Cardinality(S) -> S] :
     \A i, j \in 1..Cardinality(S) : s[i] = s[j] => i = j}

\* LRUCache.Purge's body, the range visiting the keys in the given order.
LRU_purge(r, order) ==
  [Visit(r, r.c.items, order) EXCEPT !.c = LRU_init]

\* ================================================================ ARC
\* arcList.PushFront: a key already in the list is moved to the front.
PushFront(s, k) == IF Has(s, k) THEN MoveToFront(s, k) ELSE PushFrontRaw(s, k)

\* arcList.RemoveTail on list l of the cache; the tail of an empty list is a
\* nil element, and removing it is a nil dereference.
RemoveTail(r, l) ==
  IF r.c[l] = <<>> THEN [r EXCEPT !.fault = TRUE]
  ELSE [r EXCEPT !.c[l] = ButLast(@), !.old = Back(r.c[l])]

\* ARC.init: the lists and the entries; part is not assigned.
ARC_init(cache) == [items |-> <<>>, evictList |-> <<>>, t1 |-> <<>>, t2 |-> <<>>,
                    b1 |-> <<>>, b2 |-> <<>>, part |-> cache.part]

\* ARC.isCacheFull
isCacheFull(r) == Len(r.c.t1) + Len(r.c.t2) = cfg.size

\* A faulty setPart: the target is assigned whether or not the cache is full.
setPart_always(r, p) == [r EXCEPT !.c.part = p]

\* ARC.setPart
setPart(r, p) == IF isCacheFull(r) THEN [r EXCEPT !.c.part = p] ELSE r

\* A faulty removal: the entry is deleted without on_evicted being invoked.
ARC_dropEntry_silent(r, old) ==
  IF old \in DOMAIN r.c.items THEN [r EXCEPT !.c.items = Drop(@, old)] ELSE r

\* "item, ok := c.items[old]; if ok { delete; evictedFunc }"
ARC_dropEntry(r, old) ==
  IF old \in DOMAIN r.c.items
  THEN evictedFunc([r EXCEPT !.c.items = Drop(@, old)], old, r.c.items[old].value)
  ELSE r

\* ARC.replace
ARC_replace(r, key) ==
  IF ~isCacheFull(r) THEN r
  ELSE
    LET fromT1 == Len(r.c.t1) > 0 /\
                  ((Has(r.c.b2, key) /\ Len(r.c.t1) = r.c.part) \/ Len(r.c.t1) > r.c.part)
        src == IF fromT1 THEN "t1" ELSE IF Len(r.c.t2) > 0 THEN "t2" ELSE "t1"
        dst == IF src = "t1" THEN "b1" ELSE "b2"
        r1  == RemoveTail(r, src)
    IN  IF r1.fault THEN r1
        ELSE ARC_dropEntry([r1 EXCEPT !.c[dst] = PushFront(@, r1.old)], r1.old)

\* A faulty ghost hit: the key is put in T2 and left in its ghost list.
ARC_ghostHit_keepGhost(r, key, b, p) ==
  LET r1 == ARC_replace(setPart(r, p), key)
  IN  IF r1.fault THEN r1
      ELSE [r1 EXCEPT !.c.t2 = PushFront(@, key)]

\* ARC.set after the entry is written: the branch for a key in ghost list b
\* ("b1" or "b2"), p being the new target.
ARC_ghostHit(r, key, b, p) ==
  LET r1 == ARC_replace(setPart(r, p), key)
  IN  IF r1.fault THEN r1
      ELSE [r1 EXCEPT !.c[b] = Without(@, key), !.c.t2 = PushFront(@, key)]

\* A faulty set of a new key: the ghost lists are not trimmed when the four
\* lists hold 2 * size keys.
ARC_newKey_untrimmed(r, key) ==
  LET r1 ==
        IF isCacheFull(r) /\ Len(r.c.t1) + Len(r.c.b1) = cfg.size
        THEN IF Len(r.c.t1) < cfg.size
             THEN LET d == RemoveTail(r, "b1")
                  IN  IF d.fault THEN d ELSE ARC_replace(d, key)
             ELSE LET d == RemoveTail(r, "t1")
                  IN  IF d.fault THEN d ELSE ARC_dropEntry(d, d.old)
        ELSE LET total == Len(r.c.t1) + Len(r.c.b1) + Len(r.c.t2) + Len(r.c.b2)
             IN  IF total >= cfg.size THEN ARC_replace(r, key) ELSE r
  IN  IF r1.fault THEN r1 ELSE [r1 EXCEPT !.c.t1 = PushFront(@, key)]

\* ARC.set for a key in none of the four lists.
ARC_newKey(r, key) ==
  LET r1 ==
        IF isCacheFull(r) /\ Len(r.c.t1) + Len(r.c.b1) = cfg.size
        THEN IF Len(r.c.t1) < cfg.size
             THEN LET d == RemoveTail(r, "b1")
                  IN  IF d.fault THEN d ELSE ARC_replace(d, key)
             ELSE LET d == RemoveTail(r, "t1")
                  IN  IF d.fault THEN d ELSE ARC_dropEntry(d, d.old)
        ELSE LET total == Len(r.c.t1) + Len(r.c.b1) + Len(r.c.t2) + Len(r.c.b2)
             IN  IF total >= cfg.size
                 THEN LET d == IF total = 2 * cfg.size
                               THEN IF Len(r.c.b2) > 0 THEN RemoveTail(r, "b2")
                                    ELSE RemoveTail(r, "b1")
                               ELSE r
                      IN  IF d.fault THEN d ELSE ARC_replace(d, key)
                 ELSE r
  IN  IF r1.fault THEN r1 ELSE [r1 EXCEPT !.c.t1 = PushFront(@, key)]

\* ARC.set: serialize, write the entry, the default expiration, then place
\* the key in the lists; on_added is deferred to the return.
ARC_set(r, key, value) ==
  LET ser == IF cfg.serde THEN serializeFunc(key, value)
             ELSE [val |-> value, err |-> "nil"]
      r0  == IF cfg.serde THEN Call(r, "serialize", key, value) ELSE r
  IN  IF ser.err # "nil" THEN [r0 EXCEPT !.err = ser.err]
      ELSE
        LET r1 == [r0 EXCEPT !.c.items = Put(@, key, Written(r0.c.items, key, ser.val))]
            r2 == DefaultExpiration(r1, key)
            r3 == IF Has(r2.c.t1, key) \/ Has(r2.c.t2, key) THEN r2
                  ELSE IF Has(r2.c.b1, key)
                  THEN ARC_ghostHit(r2, key, "b1",
                         Min(cfg.size, r2.c.part + Max(Len(r2.c.b2) \div Len(r2.c.b1), 1)))
                  ELSE IF Has(r2.c.b2, key)
                  THEN ARC_ghostHit(r2, key, "b2",
                         Max(0, r2.c.part - Max(Len(r2.c.b1) \div Len(r2.c.b2), 1)))
                  ELSE ARC_newKey(r2, key)
        IN  addedFunc(r3, key, ser.val)

\* ARC.getValue's handling of a key found in live list t ("t1" or "t2"),
\* whose ghost list is b; without the statistics.
ARC_lookupIn(r, key, t, b) ==
  IF key \notin DOMAIN r.c.items THEN [r EXCEPT !.fault = TRUE]
  ELSE IF ~IsExpired(r.c.items[key], now)
  THEN [r EXCEPT !.c[t] = Without(@, key), !.c.t2 = PushFront(Without(@, key), key),
                 !.found = TRUE, !.val = r.c.items[key].value]
  ELSE evictedFunc([r EXCEPT !.c[t] = Without(@, key), !.c.items = Drop(@, key),
                             !.c[b] = PushFront(@, key)],
                   key, r.c.items[key].value)

\* ARC.getValue, without the statistics.
ARC_getValue(r, key) ==
  LET r1 == IF Has(r.c.t1, key) THEN ARC_lookupIn(r, key, "t1", "b1") ELSE r
      r2 == IF ~r1.fault /\ ~r1.found /\ Has(r1.c.t2, key)
            THEN ARC_lookupIn(r1, key, "t2", "b2") ELSE r1
  IN  IF r2.found \/ r2.fault THEN r2 ELSE [r2 EXCEPT !.err = "KeyNotFound"]

\* A faulty remove: the entry is deleted but its key stays in its live list.
ARC_remove_keepListed(r, key) ==
  IF Has(r.c.t1, key) \/ Has(r.c.t2, key)
  THEN IF key \notin DOMAIN r.c.items THEN [r EXCEPT !.fault = TRUE]
       ELSE [evictedFunc([r EXCEPT !.c.items = Drop(@, key)], key, r.c.items[key].value)
             EXCEPT !.found = TRUE]
  ELSE r

\* ARC.remove
ARC_remove(r, key) ==
  LET t == IF Has(r.c.t1, key) THEN "t1" ELSE IF Has(r.c.t2, key) THEN "t2" ELSE "none"
      b == IF t = "t1" THEN "b1" ELSE "b2"
  IN  IF t = "none" THEN r
      ELSE IF key \notin DOMAIN r.c.items THEN [r EXCEPT !.fault = TRUE]
      ELSE [evictedFunc([r EXCEPT !.c[t] = Without(@, key), !.c.items = Drop(@, key),
                                  !.c[b] = PushFront(@, key)],
                        key, r.c.items[key].value)
            EXCEPT !.found = TRUE]

\* ARC.Purge's body
ARC_purge(r, order) ==
  [Visit(r, r.c.items, order) EXCEPT !.c = ARC_init(r.c)]

\* ====================================================== policy dispatch
init == LRU_init

set(r, key, value) ==
  IF cfg.policy = "lru" THEN LRU_set(r, key, value) ELSE ARC_set(r, key, value)

lookup(r, key) ==
  IF cfg.policy = "lru" THEN LRU_getValue(r, key) ELSE ARC_getValue(r, key)

remove(r, key) ==
  IF cfg.policy = "lru" THEN LRU_remove(r, key) ELSE ARC_remove(r, key)

purge(r, order) ==
  IF cfg.policy = "lru" THEN LRU_purge(r, order) ELSE ARC_purge(r, order)

\* LRUCache.has / ARC.has, given the instant Has, Keys, Len and GetALL pass.
has(key, t) == key \in DOMAIN c.items /\ ~IsExpired(c.items[key], t)

\* ============================================================ threads
NoOp  == [name |-> "none", key |-> 0, val |-> 0, ttl |-> NoTTL]
NoLoc == [found |-> FALSE, val |-> 0, err |-> "nil", at |-> 0]
NoRet == [name |-> "none", key |-> 0, arg |-> 0, ttl |-> NoTTL, val |-> 0, err |-> "nil",
          at |-> 0, end |-> 0]

\* The identity under which a detached load of key k (the goroutine that
\* GetIFPresent starts) holds a lock.
Detached(k) == 0 - k

CountOf(cb, fn) == Cardinality({i \in 1..Len(cb) : cb[i][1] = fn})

\* The counters of the test callbacks (TestLoaderPurgeVisitorFunc) after the
\* invocations of r, and the count of insertions of keys that had no entry.
Counted(r, ins) ==
  IF cfg.count
  THEN [cnt EXCEPT !.evicted = @ + CountOf(r.cb, "on_evicted"),
                   !.added   = @ + CountOf(r.cb, "on_added"),
                   !.purged  = @ + CountOf(r.cb, "on_purge_visit"),
                   !.ins     = @ + ins]
  ELSE cnt

\* 1 when the write r of key k made an entry for a key that had none.
Inserted(r, k) == IF r.err = "nil" /\ k \notin DOMAIN c.items THEN 1 ELSE 0

\* The test's counters are followed up to MaxEvents writes.
Budget == cnt.added < MaxEvents /\ cnt.purged < MaxEvents

\* The instant an operation read from the clock, kept when the history is.
At == IF cfg.history THEN now ELSE 0

\* What a critical section leaves to the thread that ran it.
Local(r, val) ==
  [found |-> r.found, val |-> val, err |-> IF r.fault THEN "panic" ELSE r.err, at |-> At]

\* The same for an operation whose return the thread only passes on (Set,
\* SetWithExpire, Remove, Purge).
Outcome(r, val) == IF cfg.history THEN Local(r, val) ELSE NoLoc

\* The arguments of such an operation.
Args(name, k, v, ttl) ==
  IF cfg.history THEN [name |-> name, key |-> k, val |-> v, ttl |-> ttl]
  ELSE [NoOp EXCEPT !.name = name]

\* The user functions a critical section invoked: with their arguments when
\* the history is kept, else their names in the order of their first call.
Trace(cb) ==
  IF cfg.history THEN cb
  ELSE SelectSeq(<<"serialize", "on_evicted", "on_purge_visit", "on_added">>,
                 LAMBDA f : CountOf(cb, f) > 0)

\* A thread starts operation name on key k: the workload allows it, and the
\* thread is not one that sleeps until a later instant before it calls.
CanStart(t, name, k) ==
  /\ pc[t] = "idle"
  /\ t \in cfg.threads
  /\ now >= cfg.after[t]
  /\ name \in cfg.ops
  /\ k \in cfg.keys

\* The operation o of thread t returns (val, err). The returned values are
\* kept for inspection when the configuration keeps a history.
Return(t, o, val, err, at) ==
  /\ pc' = [pc EXCEPT ![t] = IF cfg.once THEN "finished" ELSE "idle"]
  /\ ret' = [ret EXCEPT ![t] = IF cfg.history
                               THEN [name |-> o.name, key |-> o.key, arg |-> o.val,
                                     ttl |-> o.ttl, val |-> val, err |-> err,
                                     at |-> at, end |-> now]
                               ELSE NoRet]
  /\ prev' = [prev EXCEPT ![t] = IF cfg.history THEN ret[t] ELSE NoRet]
  /\ op' = [op EXCEPT ![t] = IF cfg.history THEN o ELSE NoOp]
  /\ loc' = [loc EXCEPT ![t] = NoLoc]

\* ----------------------------------------------------------- Set
\* LRUCache.Set / ARC.Set: c.mu.Lock(); c.set(key, value).
Set(t, k, v) ==
  /\ CanStart(t, "Set", k) /\ v \in cfg.vals
  /\ mu = Free /\ Budget
  /\ LET r == set(Work(c), k, v)
     IN  /\ c' = r.c
         /\ invoked' = Trace(r.cb)
         /\ cnt' = Counted(r, Inserted(r, k))
         /\ loc' = [loc EXCEPT ![t] = Outcome(r, 0)]
  /\ mu' = t
  /\ op' = [op EXCEPT ![t] = Args("Set", k, v, NoTTL)]
  /\ pc' = [pc EXCEPT ![t] = "unlock"]
  /\ UNCHANGED <<cfg, hits, misses, now, wall, gmu, flight, ret, prev>>

\* LRUCache.SetWithExpire / ARC.SetWithExpire: set, then the expiration.
SetWithExpire(t, k, v, ttl) ==
  /\ CanStart(t, "SetWithExpire", k) /\ v \in cfg.vals
  /\ mu = Free /\ Budget
  /\ LET r0 == set(Work(c), k, v)
         r  == IF r0.err = "nil" /\ ~r0.fault THEN SetExpiration(r0, k, ttl) ELSE r0
     IN  /\ c' = r.c
         /\ invoked' = Trace(r.cb)
         /\ cnt' = Counted(r, Inserted(r, k))
         /\ loc' = [loc EXCEPT ![t] = Outcome(r, 0)]
  /\ mu' = t
  /\ op' = [op EXCEPT ![t] = Args("SetWithExpire", k, v, ttl)]
  /\ pc' = [pc EXCEPT ![t] = "unlock"]
  /\ UNCHANGED <<cfg, hits, misses, now, wall, gmu, flight, ret, prev>>

\* LRUCache.Remove / ARC.Remove
Remove(t, k) ==
  /\ CanStart(t, "Remove", k)
  /\ mu = Free
  /\ LET r == remove(Work(c), k)
     IN  /\ c' = r.c
         /\ invoked' = Trace(r.cb)
         /\ cnt' = Counted(r, 0)
         /\ loc' = [loc EXCEPT ![t] = Outcome(r, IF r.found THEN 1 ELSE 0)]
  /\ mu' = t
  /\ op' = [op EXCEPT ![t] = Args("Remove", k, 0, NoTTL)]
  /\ pc' = [pc EXCEPT ![t] = "unlock"]
  /\ UNCHANGED <<cfg, hits, misses, now, wall, gmu, flight, ret, prev>>

\* LRUCache.Purge / ARC.Purge
Purge(t) ==
  /\ CanStart(t, "Purge", CHOOSE k \in cfg.keys : TRUE)
  /\ mu = Free
  /\ \E order \in KeyOrders(DOMAIN c.items) :
       LET r == purge(Work(c), order)
       IN  /\ c' = r.c
           /\ invoked' = Trace(r.cb)
           /\ cnt' = Counted(r, 0)
           /\ loc' = [loc EXCEPT ![t] = Outcome(r, Len(r.cb))]
  /\ mu' = t
  /\ op' = [op EXCEPT ![t] = Args("Purge", 0, 0, NoTTL)]
  /\ pc' = [pc EXCEPT ![t] = "unlock"]
  /\ UNCHANGED <<cfg, hits, misses, now, wall, gmu, flight, ret, prev>>

\* "defer c.mu.Unlock()" of Set, SetWithExpire, Remove and Purge, and the return.
Unlock(t) ==
  /\ pc[t] = "unlock"
  /\ mu' = Free
  /\ invoked' = <<>>
  /\ Return(t, op[t], loc[t].val, loc[t].err, loc[t].at)
  /\ UNCHANGED <<cfg, c, hits, misses, now, wall, gmu, flight, cnt>>

\* ----------------------------------------------------------- snapshots
\* LRUCache.Has / ARC.Has: under the read lock, against time.Now().
HasKey(t, k) ==
  /\ CanStart(t, "Has", k)
  /\ mu = Free
  /\ Return(t, [name |-> "Has", key |-> k, val |-> 0, ttl |-> NoTTL],
            IF has(k, wall) THEN 1 ELSE 0, "nil", At)
  /\ UNCHANGED <<cfg, c, hits, misses, now, wall, mu, gmu, flight, invoked, cnt>>

\* The keys Keys, GetALL and Len see.
Seen(checkExpired) == {k \in DOMAIN c.items : ~checkExpired \/ has(k, wall)}

\* LRUCache.Len / ARC.Len
LenOp(t, checkExpired) ==
  /\ CanStart(t, "Len", CHOOSE k \in cfg.keys : TRUE)
  /\ mu = Free
  /\ Return(t, [name |-> "Len", key |-> 0, val |-> 0, ttl |-> NoTTL],
            Cardinality(Seen(checkExpired)), "nil", At)
  /\ UNCHANGED <<cfg, c, hits, misses, now, wall, mu, gmu, flight, invoked, cnt>>

\* LRUCache.Keys / ARC.Keys
KeysOp(t, checkExpired) ==
  /\ CanStart(t, "Keys", CHOOSE k \in cfg.keys : TRUE)
  /\ mu = Free
  /\ Return(t, [name |-> "Keys", key |-> 0, val |-> 0, ttl |-> NoTTL],
            Seen(checkExpired), "nil", At)
  /\ UNCHANGED <<cfg, c, hits, misses, now, wall, mu, gmu, flight, invoked, cnt>>

\* LRUCache.GetALL / ARC.GetALL
GetALL(t, checkExpired) ==
  /\ CanStart(t, "GetALL", CHOOSE k \in cfg.keys : TRUE)
  /\ mu = Free
  /\ Return(t, [name |-> "GetALL", key |-> 0, val |-> 0, ttl |-> NoTTL],
            [k \in Seen(checkExpired) |-> c.items[k].value], "nil", At)
  /\ UNCHANGED <<cfg, c, hits, misses, now, wall, mu, gmu, flight, invoked, cnt>>

\* ----------------------------------------------------------- Get
\* Faulty statistics: onLoad is ignored, every lookup is counted.
Stats_ignoringOnLoad(r, onLoad) ==
  [hit |-> IF r.found THEN 1 ELSE 0, miss |-> IF r.found THEN 0 ELSE 1]

\* getValue's statistics: a hit or a miss is counted unless onLoad.
Stats(r, onLoad) ==
  [hit  |-> IF ~onLoad /\ r.found THEN 1 ELSE 0,
   miss |-> IF ~onLoad /\ ~r.found THEN 1 ELSE 0]

\* What get returns for the lookup l of key k: getValue's error, or the
\* deserialized value.
Got(k, l) ==
  IF ~l.found THEN [val |-> 0, err |-> l.err]
  ELSE IF cfg.serde THEN deserializeFunc(k, l.val)
  ELSE [val |-> l.val, err |-> "nil"]

\* ARC.getValue counts under c.mu; LRUCache.getValue counts after it has
\* released c.mu.
CountsLocked == cfg.policy = "arc"

\* The lookups that have been made and not yet counted.
Uncounted ==
  IF CountsLocked THEN 0
  ELSE Cardinality({u \in Threads : pc[u] \in {"looked", "count"}})

\* GetWithContext / GetIFPresentWithContext, the critical section of
\* getValue(key, false): the lookup under c.mu and, for ARC, the hit or miss
\* it counts there.
Lookup(t, name, k) ==
  /\ CanStart(t, name, k)
  /\ mu = Free
  /\ hits + misses + Uncounted < cfg.lookups
  /\ LET r == lookup(Work(c), k)
         n == IF CountsLocked THEN Stats(r, FALSE) ELSE [hit |-> 0, miss |-> 0]
     IN  /\ c' = r.c
         /\ invoked' = Trace(r.cb)
         /\ cnt' = Counted(r, 0)
         /\ loc' = [loc EXCEPT ![t] = Local(r, r.val)]
         /\ hits' = hits + n.hit
         /\ misses' = misses + n.miss
  /\ mu' = t
  /\ op' = [op EXCEPT ![t] = [name |-> name, key |-> k, val |-> 0, ttl |-> NoTTL]]
  /\ pc' = [pc EXCEPT ![t] = "looked"]
  /\ UNCHANGED <<cfg, now, wall, gmu, flight, ret, prev>>

Get(t, k) == Lookup(t, "Get", k)

GetIFPresent(t, k) == Lookup(t, "GetIFPresent", k)

\* The rest of get(key, false) and of the caller: a hit returns (the
\* deserialized value), a miss goes to getWithLoader, which returns
\* KeyNotFound when there is no loader.
AfterGet(t) ==
  LET g == Got(op[t].key, loc[t])
  IN  IF g.err = "KeyNotFound" /\ cfg.loader # "none"
      THEN /\ pc' = [pc EXCEPT ![t] = "do"]
           /\ UNCHANGED <<ret, prev, op, loc>>
      ELSE Return(t, op[t], g.val, g.err, loc[t].at)

\* c.mu is released at the end of getValue's critical section. ARC has
\* counted and goes on; LRU has yet to count.
Looked(t) ==
  /\ pc[t] = "looked"
  /\ mu' = Free
  /\ invoked' = <<>>
  /\ IF CountsLocked
     THEN AfterGet(t)
     ELSE /\ pc' = [pc EXCEPT ![t] = "count"]
          /\ UNCHANGED <<ret, prev, op, loc>>
  /\ UNCHANGED <<cfg, c, hits, misses, now, wall, gmu, flight, cnt>>

\* LRUCache.getValue after c.mu.Unlock(): c.stats.IncrHitCount() or
\* IncrMissCount(), then the rest of get.
Count(t) ==
  /\ pc[t] = "count"
  /\ hits' = hits + Stats(loc[t], FALSE).hit
  /\ misses' = misses + Stats(loc[t], FALSE).miss
  /\ AfterGet(t)
  /\ UNCHANGED <<cfg, c, now, wall, mu, gmu, flight, invoked, cnt>>

\* A faulty GetIFPresent: it asks the load to wait, as Get does.
isWait_always(name) == TRUE

\* The isWait argument of getWithLoader: GetWithContext passes true,
\* GetIFPresentWithContext false.
isWait(name) == name = "Get"

\* ------------------------------------------------------ single flight
\* Group.Do, first part: g.mu.Lock(); g.cache.get(key, true), the lookup
\* that counts neither a hit nor a miss.
DoLookup(t) ==
  /\ pc[t] = "do"
  /\ gmu = Free /\ mu = Free
  /\ LET r == lookup(Work(c), op[t].key)
     IN  /\ c' = r.c
         /\ invoked' = Trace(r.cb)
         /\ cnt' = Counted(r, 0)
         /\ loc' = [loc EXCEPT ![t] = [Local(r, r.val) EXCEPT !.at = loc[t].at]]
         /\ hits' = hits + Stats(r, TRUE).hit
         /\ misses' = misses + Stats(r, TRUE).miss
  /\ gmu' = t
  /\ mu' = t
  /\ pc' = [pc EXCEPT ![t] = "do_table"]
  /\ UNCHANGED <<cfg, now, wall, flight, op, ret, prev>>

\* A new pending call of the table, run by owner.
NewCall(owner) ==
  [st |-> "created", owner |-> owner, val |-> 0, err |-> "nil", ttl |-> NoTTL,
   at |-> 0, waiters |-> {}]

\* Group.Do, second part: the lookup's c.mu is released; a value found is
\* returned; a pending call is joined (Get) or left alone (GetIFPresent);
\* otherwise a call is created, run by the caller (Get) or by a detached
\* task (GetIFPresent); g.mu.Unlock().
DoTable(t) ==
  /\ pc[t] = "do_table"
  /\ mu' = Free
  /\ gmu' = Free
  /\ invoked' = <<>>
  /\ LET k == op[t].key
         g == Got(k, loc[t])
         wait == isWait(op[t].name)
     IN  IF g.err = "nil"
         THEN /\ Return(t, op[t], g.val, "nil", loc[t].at)
              /\ UNCHANGED flight
         ELSE IF k \in DOMAIN flight
         THEN IF ~wait
              THEN /\ Return(t, op[t], 0, "KeyNotFound", loc[t].at)
                   /\ UNCHANGED flight
              ELSE IF flight[k].st = "done"
              THEN /\ Return(t, op[t], flight[k].val, flight[k].err, loc[t].at)
                   /\ UNCHANGED flight
              ELSE /\ pc' = [pc EXCEPT ![t] = "wait"]
                   /\ flight' = [flight EXCEPT ![k].waiters = @ \cup {t}]
                   /\ UNCHANGED <<ret, prev, op, loc>>
         ELSE IF wait
         THEN /\ flight' = Put(flight, k, NewCall(t))
              /\ pc' = [pc EXCEPT ![t] = "run"]
              /\ UNCHANGED <<ret, prev, op, loc>>
         ELSE /\ flight' = Put(flight, k, NewCall(Detached(k)))
              /\ Return(t, op[t], 0, "KeyNotFound", loc[t].at)
  /\ UNCHANGED <<cfg, c, hits, misses, now, wall, cnt>>

\* What the configured loader returns for key k on its n-th invocation:
\* the counter of the load tests, or the key itself (getter).
loaderExpireFunc(k, n) == IF cfg.loader = "counter" THEN n ELSE k

\* A faulty load: the cache lock is taken before the loader is invoked.
LoaderCall_underLock(k) ==
  /\ k \in DOMAIN flight
  /\ flight[k].st = "created"
  /\ mu = Free
  /\ mu' = flight[k].owner
  /\ flight' = [flight EXCEPT ![k].st = "loading"]
  /\ UNCHANGED <<cfg, c, hits, misses, now, wall, gmu, pc, op, loc, ret, prev,
                 invoked, cnt>>

\* baseCache.load's closure begins: c.loaderExpireFunc(ctx, key) is invoked.
LoaderCall(k) ==
  /\ k \in DOMAIN flight
  /\ flight[k].st = "created"
  /\ flight' = [flight EXCEPT ![k].st = "loading"]
  /\ UNCHANGED <<cfg, c, hits, misses, now, wall, mu, gmu, pc, op, loc, ret, prev,
                 invoked, cnt>>

\* A faulty load: a panic of the loader is not recovered, and the call it
\* ran in never completes.
LoaderReturn_unrecovered(k, outcome) ==
  /\ k \in DOMAIN flight
  /\ flight[k].st = "loading"
  /\ outcome \in cfg.outcomes
  /\ cnt' = [cnt EXCEPT !.load = @ + 1]
  /\ flight' = IF outcome = "nil"
               THEN [flight EXCEPT ![k].st = "loaded",
                                   ![k].val = loaderExpireFunc(k, cnt.load + 1),
                                   ![k].ttl = cfg.loaderTTL]
               ELSE IF outcome = "loader panics"
               THEN [flight EXCEPT ![k].st = "panicked"]
               ELSE [flight EXCEPT ![k].st = "returned", ![k].err = outcome]
  /\ UNCHANGED <<cfg, c, hits, misses, now, wall, mu, gmu, pc, op, loc, ret, prev,
                 invoked>>

\* The loader returns a value and a TTL, returns an error, or panics (the
\* panic is recovered by load). On an error the insert is skipped.
LoaderReturn(k, outcome) ==
  /\ k \in DOMAIN flight
  /\ flight[k].st = "loading"
  /\ outcome \in cfg.outcomes
  /\ cnt' = [cnt EXCEPT !.load = @ + 1]
  /\ flight' = IF outcome = "nil"
               THEN [flight EXCEPT ![k].st = "loaded",
                                   ![k].val = loaderExpireFunc(k, cnt.load + 1),
                                   ![k].ttl = cfg.loaderTTL]
               ELSE [flight EXCEPT ![k].st = "returned", ![k].err = outcome]
  /\ UNCHANGED <<cfg, c, hits, misses, now, wall, mu, gmu, pc, op, loc, ret, prev,
                 invoked>>

\* A faulty callback: the loaded value is returned but not stored.
Insert_skip(k) ==
  /\ k \in DOMAIN flight
  /\ flight[k].st = "loaded"
  /\ mu = Free
  /\ flight' = [flight EXCEPT ![k].st = "inserted", ![k].at = At]
  /\ mu' = flight[k].owner
  /\ UNCHANGED <<cfg, c, hits, misses, now, wall, gmu, pc, op, loc, ret, prev,
                 invoked, cnt>>

\* A faulty callback: the loader's error is not tested, and what the loader
\* returned is set whatever the outcome.
Insert_anyway(k) ==
  /\ k \in DOMAIN flight
  /\ flight[k].st \in {"loaded", "returned"}
  /\ mu = Free
  /\ LET r == set(Work(c), k, flight[k].val)
     IN  /\ c' = r.c
         /\ invoked' = Trace(r.cb)
         /\ cnt' = Counted(r, Inserted(r, k))
         /\ flight' = [flight EXCEPT ![k].st = "inserted", ![k].at = At]
  /\ mu' = flight[k].owner
  /\ UNCHANGED <<cfg, hits, misses, now, wall, gmu, pc, op, loc, ret, prev>>

\* A faulty callback: the loaded value is stored only when the key has no
\* entry; an entry written meanwhile is kept.
Insert_ifAbsent(k) ==
  /\ k \in DOMAIN flight
  /\ flight[k].st = "loaded"
  /\ mu = Free
  /\ LET r == IF k \in DOMAIN c.items THEN Work(c) ELSE set(Work(c), k, flight[k].val)
     IN  /\ c' = r.c
         /\ invoked' = Trace(r.cb)
         /\ cnt' = Counted(r, Inserted(r, k))
         /\ flight' = [flight EXCEPT ![k].st = "inserted", ![k].at = At]
  /\ mu' = flight[k].owner
  /\ UNCHANGED <<cfg, hits, misses, now, wall, gmu, pc, op, loc, ret, prev>>

\* getWithLoader's callback after a successful load: c.mu.Lock();
\* c.set(key, v); the loader's TTL if it gave one.
Insert(k) ==
  /\ k \in DOMAIN flight
  /\ flight[k].st = "loaded"
  /\ mu = Free
  /\ LET r0 == set(Work(c), k, flight[k].val)
         r  == IF r0.err = "nil" /\ ~r0.fault /\ flight[k].ttl # NoTTL
               THEN SetExpiration(r0, k, flight[k].ttl) ELSE r0
     IN  /\ c' = r.c
         /\ invoked' = Trace(r.cb)
         /\ cnt' = Counted(r, Inserted(r, k))
         /\ flight' = [flight EXCEPT
                         ![k].st = "inserted",
                         ![k].at = At,
                         ![k].err = IF r.fault THEN "panic" ELSE r.err,
                         ![k].val = IF r.err = "nil" /\ ~r.fault THEN @ ELSE 0]
  /\ mu' = flight[k].owner
  /\ UNCHANGED <<cfg, hits, misses, now, wall, gmu, pc, op, loc, ret, prev>>

\* Group.call after fn returns: the callback's c.mu is released, the result
\* is stored in the call and c.wg.Done() releases the callers waiting on it.
CallDone(k) ==
  /\ k \in DOMAIN flight
  /\ flight[k].st \in {"inserted", "returned"}
  /\ mu' = IF flight[k].st = "inserted" THEN Free ELSE mu
  /\ invoked' = IF flight[k].st = "inserted" THEN <<>> ELSE invoked
  /\ flight' = [flight EXCEPT ![k].st = "done", ![k].waiters = {}]
  /\ pc' = [t \in Threads |-> IF t \in flight[k].waiters THEN "woken" ELSE pc[t]]
  /\ loc' = [t \in Threads |->
               IF t \in flight[k].waiters
               THEN [found |-> FALSE, val |-> flight[k].val, err |-> flight[k].err,
                     at |-> loc[t].at]
               ELSE loc[t]]
  /\ UNCHANGED <<cfg, c, hits, misses, now, wall, gmu, op, ret, prev, cnt>>

\* Group.call's end: g.mu.Lock(); delete(g.m, key); g.mu.Unlock(); the
\* caller that ran the load returns its result.
CallDelete(k) ==
  /\ k \in DOMAIN flight
  /\ flight[k].st = "done"
  /\ gmu = Free
  /\ flight' = Drop(flight, k)
  /\ IF flight[k].owner \in Threads
     THEN Return(flight[k].owner, op[flight[k].owner], flight[k].val, flight[k].err,
                 loc[flight[k].owner].at)
     ELSE UNCHANGED <<pc, ret, prev, op, loc>>
  /\ UNCHANGED <<cfg, c, hits, misses, now, wall, mu, gmu, invoked, cnt>>

\* c.wg.Wait() returns in a caller that joined the call: it returns the
\* call's result.
WaitReturn(t) ==
  /\ pc[t] = "woken"
  /\ Return(t, op[t], loc[t].val, loc[t].err, loc[t].at)
  /\ UNCHANGED <<cfg, c, hits, misses, now, wall, mu, gmu, flight, invoked, cnt>>

\* ------------------------------------------------------------- clock
\* Time passes: with the real clock c.clock.Now() is time.Now().
Tick ==
  /\ cfg.clock = "real"
  /\ now < MaxTime
  /\ now' = now + 1
  /\ wall' = wall + 1
  /\ UNCHANGED <<cfg, c, hits, misses, mu, gmu, flight, pc, op, loc, ret, prev,
                 invoked, cnt>>

\* A test advances the fake clock it configured (Clock(fake)).
FakeAdvance ==
  /\ cfg.clock = "fake"
  /\ now < MaxTime
  /\ now' = now + 1
  /\ UNCHANGED <<cfg, c, hits, misses, wall, mu, gmu, flight, pc, op, loc, ret, prev,
                 invoked, cnt>>

\* Time passes while the cache reads a fake clock.
WallTick ==
  /\ cfg.clock = "fake"
  /\ wall < MaxTime
  /\ wall' = wall + 1
  /\ UNCHANGED <<cfg, c, hits, misses, now, mu, gmu, flight, pc, op, loc, ret, prev,
                 invoked, cnt>>

\* ===================================================== configurations
AllOps == {"Set", "SetWithExpire", "Get", "GetIFPresent", "Has", "Remove", "Purge",
           "Len", "Keys", "GetALL"}

\* CacheBuilder's fields after New(size).LRU(), and the workload's.
BaseCfg ==
  [policy |-> "lru", size |-> 1, loader |-> "none", loaderTTL |-> NoTTL,
   outcomes |-> {"nil"}, expiration |-> NoTTL, evictedFunc |-> FALSE,
   addedFunc |-> FALSE, purgeVisitorFunc |-> FALSE, serde |-> FALSE, serFail |-> {},
   clock |-> "real", lookups |-> MaxLookups, count |-> FALSE, history |-> FALSE, once |-> FALSE,
   threads |-> Sharers, after |-> [t \in Threads |-> 0],
   ops |-> AllOps, keys |-> Keys, vals |-> Vals]

\* The state after Build(): newLRUCache / newARC.
InitWith(Configs) ==
  /\ cfg \in Configs
  /\ c = init
  /\ hits = 0 /\ misses = 0
  /\ now = 0 /\ wall = 0
  /\ mu = Free /\ gmu = Free
  /\ flight = <<>>
  /\ pc = [t \in Threads |-> "idle"]
  /\ op = [t \in Threads |-> NoOp]
  /\ loc = [t \in Threads |-> NoLoc]
  /\ ret = [t \in Threads |-> NoRet]
  /\ prev = [t \in Threads |-> NoRet]
  /\ invoked = <<>>
  /\ cnt = [load |-> 0, evicted |-> 0, added |-> 0, purged |-> 0, ins |-> 0]

\* The builder's callbacks all set.
Observed == [BaseCfg EXCEPT !.evictedFunc = TRUE, !.addedFunc = TRUE,
                            !.purgeVisitorFunc = TRUE, !.vals = {1}]

\* The configurations of Spec. Without a loader: an LRU cache of the largest
\* size used from every thread, an ARC cache of that size and an LRU cache
\* with a default expiration used from one thread. With a loader, on two keys
\* and size 1: both policies from every thread (ARC without GetIFPresent),
\* and ARC with GetIFPresent from one thread.
Configs ==
  {[Observed EXCEPT !.policy = "lru", !.size = MaxSize],
   [Observed EXCEPT !.policy = "arc", !.size = MaxSize, !.threads = {1}],
   [Observed EXCEPT !.policy = "lru", !.size = MaxSize, !.threads = {1},
                    !.expiration = MaxTTL],
   [Observed EXCEPT !.policy = "lru", !.size = 1, !.keys = {1, 2}, !.loader = "getter"],
   [Observed EXCEPT !.policy = "arc", !.size = 1, !.keys = {1, 2}, !.loader = "getter",
                    !.ops = AllOps \ {"GetIFPresent"}],
   [Observed EXCEPT !.policy = "arc", !.size = 1, !.keys = {1, 2}, !.loader = "getter",
                    !.threads = {1}, !.ops = {"GetIFPresent", "Set", "Remove"}]}

Init == InitWith(Configs)

Writes ==
  \E t \in Threads, k \in Keys :
    \/ \E v \in Vals : Set(t, k, v)
    \/ \E v \in Vals, ttl \in TTLs : SetWithExpire(t, k, v, ttl)
    \/ Remove(t, k)
    \/ Purge(t)
    \/ Unlock(t)

Snapshots ==
  \E t \in Threads, k \in Keys, b \in BOOLEAN :
    \/ HasKey(t, k)
    \/ LenOp(t, b)
    \/ KeysOp(t, b)
    \/ GetALL(t, b)

Reads ==
  \E t \in Threads, k \in Keys :
    \/ Get(t, k)
    \/ Looked(t)
    \/ Count(t)

Loads ==
  \/ \E t \in Threads : DoLookup(t) \/ DoTable(t) \/ WaitReturn(t)
  \/ \E k \in Keys : LoaderCall(k) \/ Insert(k) \/ CallDone(k) \/ CallDelete(k)
  \/ \E k \in Keys, o \in {"nil", "loader error", "loader panics"} : LoaderReturn(k, o)

Next ==
  \/ Writes
  \/ Snapshots
  \/ Reads
  \/ \E t \in Threads, k \in Keys : GetIFPresent(t, k)
  \/ Loads
  \/ Tick

Spec == Init /\ [][Next]_vars

\* ================================================================ C1
\* Concurrent Get(1) calls, one per thread, on an empty LRU or ARC cache
\* whose loader counts its invocations (TestLoaderFunc).
LoadConfigs ==
  {[BaseCfg EXCEPT !.policy = p, !.loader = "counter", !.evictedFunc = TRUE,
                   !.history = TRUE, !.once = TRUE, !.threads = 1..n,
                   !.lookups = NumThreads, !.ops = {"Get"}, !.keys = {1}] :
     p \in {"lru", "arc"}, n \in Threads}

InitLoad == InitWith(LoadConfigs)

NextLoad == Reads \/ Loads

SpecLoad == InitLoad /\ [][NextLoad]_vars

\* C1: concurrent Get(k) calls on a key with no live entry invoke the loader
\* exactly once in every interleaving: it is never invoked twice, no call is
\* ever stuck, every call that has returned returned the value of the first
\* invocation and no error, and once all have returned the loader has run.
C1_SingleFlight ==
  /\ cnt.load <= 1
  /\ \A t \in cfg.threads :
       pc[t] = "finished" =>
         /\ ret[t].name = "Get" /\ ret[t].err = "nil"
         /\ ret[t].val = loaderExpireFunc(1, 1)
         /\ cnt.load = 1
  /\ (\E t \in cfg.threads : pc[t] # "finished") => ENABLED NextLoad

\* One load has run and its caller has returned its value; a second caller,
\* whose initial lookup had missed, entered the load path only afterwards and
\* has found the entry there; the third has missed and not yet entered.
C1_Witness ==
  /\ cfg.threads = Threads
  /\ cnt.load = 1 /\ flight = <<>>
  /\ hits = 0 /\ misses = NumThreads
  /\ \E t, u, w \in Threads :
       /\ pc[t] = "finished" /\ ret[t].val = 1 /\ ret[t].err = "nil"
       /\ pc[u] = "do_table" /\ loc[u].found /\ loc[u].val = 1
       /\ pc[w] = "do"

\* ================================================================ C2
\* C2: in every reachable state the number of stored entries, Len(false), is
\* at most the cache's size, and for ARC |T1| + |T2| is at most the size.
C2_Capacity ==
  /\ Cardinality(DOMAIN c.items) <= cfg.size
  /\ cfg.policy = "lru" => Len(c.evictList) <= cfg.size
  /\ cfg.policy = "arc" => Len(c.t1) + Len(c.t2) <= cfg.size

\* A Set of a new key into a full ARC cache of the largest size has just
\* evicted an entry and added its own: the cache is full again.
C2_Witness ==
  /\ cfg.policy = "arc" /\ cfg.size = MaxSize
  /\ mu # Free
  /\ invoked = <<"on_evicted", "on_added">>
  /\ Cardinality(DOMAIN c.items) = cfg.size

\* ======================================================== C3, C5
\* One thread, whose calls and returns are recorded, uses an LRU or ARC
\* cache of size 1 without a loader: every write, Get and Has on one key;
\* Set, SetWithExpire and Get on two keys; the same on one key with the
\* serialization hooks (which fail on value 2); and, with or without a
\* default expiration, a cache that reads a fake clock.
Recorded == [BaseCfg EXCEPT !.history = TRUE, !.threads = {1}, !.keys = {1}]

HistConfigs ==
  UNION {
    {[Recorded EXCEPT !.policy = p,
                      !.ops = {"Set", "SetWithExpire", "Get", "Has", "Remove", "Purge"}],
     [Recorded EXCEPT !.policy = p, !.keys = {1, 2}, !.vals = {1},
                      !.ops = {"Set", "SetWithExpire", "Get"}],
     [Recorded EXCEPT !.policy = p, !.serde = TRUE, !.serFail = {2},
                      !.ops = {"Set", "SetWithExpire", "Get"}],
     [Recorded EXCEPT !.policy = p, !.vals = {1}, !.clock = "fake",
                      !.ops = {"Set", "SetWithExpire", "Get", "Has"}],
     [Recorded EXCEPT !.policy = p, !.vals = {1}, !.clock = "fake",
                      !.expiration = MaxTTL,
                      !.ops = {"Set", "SetWithExpire", "Get", "Has"}]} :
    p \in {"lru", "arc"}}

InitHist == InitWith(HistConfigs)

NextHist ==
  \/ Writes
  \/ \E t \in Threads, k \in Keys : HasKey(t, k)
  \/ Reads
  \/ Tick
  \/ FakeAdvance
  \/ WallTick

SpecHist == InitHist /\ [][NextHist]_vars

\* C3: a Set(k, v) that returned nil, followed immediately by Get(k) at the
\* same clock instant with no operation in between, is answered with v and
\* no error, whatever was stored for k before.
C3_SetGetRoundTrip ==
  \A t \in cfg.threads :
    (/\ cfg.threads = {t} /\ cfg.loader = "none"
     /\ ret[t].name = "Get" /\ prev[t].name = "Set"
     /\ prev[t].key = ret[t].key
     /\ prev[t].err = "nil"
     /\ prev[t].at = ret[t].at)
    => ret[t].val = prev[t].arg /\ ret[t].err = "nil"

\* C5: once the instant of the configured Clock is past an entry's
\* expiration, Has(k) returns false and a Get(k) does not find the entry:
\* no Has that has just returned true was made at an instant past the
\* entry's expiration, and no lookup of Get has found such an entry.
C5_ExpiredIsGone ==
  \A t \in cfg.threads :
    /\ (/\ cfg.threads = {t} /\ pc[t] = "idle"
        /\ ret[t].name = "Has" /\ ret[t].val = 1)
       => /\ ret[t].key \in DOMAIN c.items
          /\ ~IsExpired(c.items[ret[t].key], ret[t].at)
    /\ (pc[t] = "looked" /\ loc[t].found)
       => /\ op[t].key \in DOMAIN c.items
          /\ ~IsExpired(c.items[op[t].key], loc[t].at)

\* ================================================================ C4
\* Threads that each make one call, on one key, of a cache with a loader:
\* the loader gives a TTL or none, a default expiration is configured or not.
TTLConfigs ==
  {[BaseCfg EXCEPT !.policy = p, !.history = TRUE, !.once = TRUE,
                   !.keys = {1}, !.vals = {1},
                   !.loader = "getter", !.loaderTTL = lt, !.expiration = e,
                   !.ops = {"Set", "SetWithExpire", "Remove", "Purge", "Get"}] :
     p \in {"lru", "arc"}, lt \in {NoTTL, MaxTTL}, e \in {NoTTL, MaxTTL}}

InitTTL == InitWith(TTLConfigs)

NextTTL == Writes \/ Reads \/ Loads \/ Tick

SpecTTL == InitTTL /\ [][NextTTL]_vars

\* The expiration an entry written at instant at has when the write gave
\* the TTL ttl (NoTTL if it gave none).
Resolved(at, ttl) ==
  IF ttl # NoTTL THEN at + ttl
  ELSE IF cfg.expiration # NoTTL THEN at + cfg.expiration
  ELSE NoExp

\* C4: immediately after a successful write of key k at instant now (the
\* write still holds the lock), for a new key and for an update alike, the
\* entry's expiration is now + ttl for SetWithExpire(k, v, ttl), now + the
\* loader's TTL for a loader insert that gave one, otherwise now + the
\* default expiration if one is configured, otherwise none.
C4_WriteTimeTTL ==
  /\ \A t \in cfg.threads :
       (pc[t] = "unlock" /\ op[t].name \in {"Set", "SetWithExpire"} /\ loc[t].err = "nil")
       => /\ op[t].key \in DOMAIN c.items
          /\ c.items[op[t].key].expiration = Resolved(loc[t].at, op[t].ttl)
  /\ \A k \in DOMAIN flight :
       (flight[k].st = "inserted" /\ flight[k].err = "nil")
       => /\ k \in DOMAIN c.items
          /\ c.items[k].expiration = Resolved(flight[k].at, flight[k].ttl)

\* ================================================================ C6
\* TestLoaderExpireFuncWithExpire: the loader counts its invocations and
\* gives a TTL; threads 1..b are started at once, the others after a sleep
\* of the TTL. The sleep is not synchronised with the first batch: time
\* passes whatever the threads have done.
ExpireConfigs ==
  {[BaseCfg EXCEPT !.policy = p, !.loader = "counter", !.loaderTTL = MaxTTL,
                   !.history = TRUE, !.once = TRUE, !.threads = Threads,
                   !.after = [t \in Threads |-> IF t <= b THEN 0 ELSE MaxTime],
                   !.lookups = NumThreads, !.ops = {"Get"}, !.keys = {1}] :
     p \in {"lru", "arc"}, b \in 1..(NumThreads - 1)}

InitExpire == InitWith(ExpireConfigs)

NextExpire == Reads \/ Loads \/ Tick

SpecExpire == InitExpire /\ [][NextExpire]_vars

\* Every call of both batches has returned.
BothBatchesDone == \A t \in cfg.threads : pc[t] = "finished"

\* Every call of the first batch returned before the entry expired.
FirstBatchDoneInTime ==
  \A t \in cfg.threads : cfg.after[t] = 0 => pc[t] = "finished" /\ ret[t].end = 0

\* A call of the first batch returned within the first window: the first
\* load's entry was stored then, and has expired when the second batch calls.
FirstLoadInWindow ==
  \E t \in cfg.threads : cfg.after[t] = 0 /\ pc[t] = "finished" /\ ret[t].end = 0

\* C6 as stated: when the first batch was answered by a load within the
\* first window and the second batch called after that entry had expired,
\* the loader is invoked exactly twice over the two windows, for any batch
\* sizes and in every interleaving.
C6_ExactlyTwoLoads == (BothBatchesDone /\ FirstLoadInWindow) => cnt.load = 2

\* C6, amended: within the first window the loader is invoked at most once;
\* over the two windows it is invoked once or twice, and exactly twice when
\* every call of the first batch returned before the entry expired; every
\* call returns the value of one of the invocations and no error.
C6_AtMostTwoLoads ==
  /\ cnt.load <= 2
  /\ now = 0 => cnt.load <= 1
  /\ BothBatchesDone => cnt.load >= 1
  /\ (BothBatchesDone /\ FirstBatchDoneInTime) => cnt.load = 2
  /\ \A t \in cfg.threads :
       pc[t] = "finished" => ret[t].err = "nil" /\ ret[t].val \in 1..cnt.load

\* The first batch (threads 1 and 2) was answered by one load before the
\* entry expired; the second batch (thread 3) by a second load.
C6_Witness ==
  /\ BothBatchesDone /\ FirstBatchDoneInTime
  /\ cfg.after[NumThreads - 1] = 0
  /\ cnt.load = 2
  /\ ret[1].val = 1 /\ ret[NumThreads].val = 2
  /\ hits > 0

\* ================================================================ C7
\* C7: a step changes the statistics only when it counts the initial lookup
\* of a Get or GetIFPresent call (ARC: the lookup itself; LRU: the step after
\* the lookup's unlock), which every call does once, and then HitCount +
\* MissCount grows by exactly 1: a hit when the lookup found a live entry, a
\* miss otherwise. The lookup inside the load path, the load itself, joining
\* a load, Has, Keys, Len and GetALL change neither counter.
C7_Step ==
  LET started  == {t \in Threads : pc[t] = "idle" /\ pc'[t] = "looked"}
      counting == {t \in Threads : pc[t] = "count" /\ pc'[t] # "count"}
      counted  == IF CountsLocked THEN started ELSE counting
      found(t) == IF CountsLocked THEN loc'[t].found ELSE loc[t].found
  IN  /\ hits' + misses' = hits + misses + Cardinality(counted)
      /\ \A t \in counted : hits' = hits + (IF found(t) THEN 1 ELSE 0)
      /\ counted = {} => hits' = hits /\ misses' = misses
      \* a call that counts after its critical section does so once, on
      \* what its lookup found, before it goes on
      /\ \A t \in Threads :
           /\ (~CountsLocked /\ pc[t] = "looked") => pc'[t] \in {"looked", "count"}
           /\ pc'[t] = "count" =>
                /\ ~CountsLocked
                /\ pc[t] \in {"looked", "count"}
                /\ pc[t] = "looked" => loc'[t].found = loc[t].found
                /\ pc[t] = "count" => loc'[t] = loc[t]
           /\ pc'[t] = "looked" => pc[t] \in {"idle", "looked"}

C7_Stats == [][C7_Step]_vars

\* Set(1, 1); Get(1); Get(2) on a cache with a loader: the second Get was
\* answered by the loader, and the counters stand at one hit and one miss.
C7_Witness ==
  /\ cfg.loader = "getter"
  /\ hits = 1 /\ misses = 1
  /\ cnt.load = 1
  /\ flight = <<>>
  /\ \A t \in Threads : pc[t] = "idle"
  /\ DOMAIN c.items = {2}

\* ================================================================ C8
\* Caches with every callback counted (TestLoaderPurgeVisitorFunc), of size
\* 1 on two keys, with a loader: used by one thread with every write, and
\* by two threads with Get, Remove and Purge.
CountConfigs ==
  UNION {
    {[Observed EXCEPT !.policy = p, !.count = TRUE, !.keys = {1, 2},
                      !.loader = "getter", !.threads = {1},
                      !.ops = {"Set", "SetWithExpire", "Get", "Remove", "Purge"}],
     [Observed EXCEPT !.policy = p, !.count = TRUE, !.keys = {1, 2},
                      !.loader = "getter",
                      !.ops = {"Get", "Remove", "Purge"}]} :
    p \in {"lru", "arc"}}

InitCount == InitWith(CountConfigs)

NextCount == Writes \/ Reads \/ Loads \/ Tick

SpecCount == InitCount /\ [][NextCount]_vars

\* No call is in progress.
Quiescent ==
  /\ mu = Free /\ gmu = Free /\ flight = <<>>
  /\ \A t \in Threads : pc[t] = "idle"

\* C8 as stated: at every quiescent state the insertions of a key that had
\* no entry number the on_evicted invocations plus Len(false).
C8_InsertedIsEvictedPlusLen ==
  Quiescent => cnt.ins = cnt.evicted + Cardinality(DOMAIN c.items)

\* A step's part in the accounting of entries.
C8_Step ==
  /\ Quiescent' =>
       cnt'.ins = cnt'.evicted + cnt'.purged + Cardinality(DOMAIN c'.items)
  /\ \A t \in Threads :
       (pc[t] = "idle" /\ pc'[t] = "unlock" /\ op'[t].name = "Purge")
       => /\ cnt'.purged = cnt.purged + Cardinality(DOMAIN c.items)
          /\ cnt'.evicted = cnt.evicted
          /\ c'.items = <<>>
  /\ (\A t \in Threads : ~(pc'[t] = "unlock" /\ op'[t].name = "Purge"))
       => cnt'.purged = cnt.purged

\* C8, amended: at every quiescent state the insertions of a key that had
\* no entry number the on_evicted invocations plus the on_purge_visit
\* invocations plus Len(false); a Purge invokes on_purge_visit once for
\* each of the Len(false) entries present, and on_evicted for none; no
\* other operation invokes on_purge_visit.
C8_EntryAccounting == [][C8_Step]_vars

\* After loads, an eviction and a Purge of a non-empty cache, an entry has
\* been stored again and no call is in progress.
C8_Witness ==
  /\ Quiescent
  /\ cnt.load >= 1 /\ cnt.evicted >= 1 /\ cnt.purged >= 1
  /\ Cardinality(DOMAIN c.items) = 1
  /\ cnt.ins = cnt.evicted + cnt.purged + 1

\* ================================================================ C9
\* C9: while a loader invocation is in progress, the caller (or detached
\* task) running it holds neither the cache lock nor the single-flight mutex.
C9_LoaderOutsideLocks ==
  \A k \in DOMAIN flight :
    flight[k].st = "loading" => mu # flight[k].owner /\ gmu # flight[k].owner

\* While the loader runs for key 1 on behalf of a Get, another thread is
\* inside a critical section of the cache (a Set that added key 2).
C9_Witness ==
  /\ 1 \in DOMAIN flight
  /\ flight[1].st = "loading"
  /\ flight[1].owner \in Threads
  /\ mu \in Threads \ {flight[1].owner}
  /\ invoked = <<"on_added">>
  /\ 2 \in DOMAIN c.items

\* =============================================================== C10
\* C10: the cache lock is not held at the moment on_added, on_evicted,
\* on_purge_visit or serialize is invoked: no critical section that still
\* holds the lock has invoked one of them.
C10_CallbacksOutsideLock == mu # Free => invoked = <<>>

\* =============================================================== C11
\* Threads that each make one call, Get or Set, on two keys of a cache of
\* size 2 with every callback set, whose loader succeeds, returns an error
\* or panics.
Failures == {"loader error", "loader panics"}

FailConfigs ==
  {[Observed EXCEPT !.policy = p, !.size = MaxSize, !.keys = {1, 2},
                    !.loader = "getter", !.outcomes = {"nil"} \cup Failures,
                    !.history = TRUE, !.once = TRUE, !.threads = Threads,
                    !.lookups = NumThreads, !.ops = {"Get", "Set"}] :
     p \in {"lru", "arc"}}

InitFail == InitWith(FailConfigs)

NextFail ==
  \/ \E t \in Threads, k \in Keys, v \in Vals : Set(t, k, v)
  \/ \E t \in Threads : Unlock(t)
  \/ Reads
  \/ Loads

SpecFail == InitFail /\ [][NextFail]_vars

\* The part of a step in a load of key k that fails.
C11_Step ==
  \A k \in DOMAIN flight :
    LET call == flight[k]
        failed == call.st \in {"returned", "done"} /\ call.err \in Failures
    IN  \* the loader returns an error or panics: nothing is touched
        /\ (call.st = "loading" /\ k \in DOMAIN flight' /\ flight'[k].st = "returned")
           => /\ flight'[k].err \in Failures
              /\ c' = c /\ invoked' = invoked /\ mu' = mu
        \* the failed call never reaches the insert
        /\ (failed /\ k \in DOMAIN flight')
           => /\ flight'[k].st \in {"returned", "done"}
              /\ flight'[k].err = call.err
        \* Group.call hands the error to every waiter, the cache untouched
        /\ (call.st = "returned" /\ k \in DOMAIN flight' /\ flight'[k].st = "done")
           => /\ c' = c /\ invoked' = invoked /\ mu' = mu
              /\ \A t \in call.waiters :
                   pc'[t] = "woken" /\ loc'[t].err = call.err /\ ~loc'[t].found
        \* the caller that ran the load returns the error
        /\ (failed /\ k \notin DOMAIN flight')
           => /\ c' = c /\ invoked' = invoked
              /\ call.owner \in Threads
                 => /\ pc'[call.owner] = "finished"
                    /\ ret'[call.owner].err = call.err
                    /\ ret'[call.owner].val = 0
                    /\ ret'[call.owner].key = k

\* C11: when the loader invocation for k returns an error or panics, the
\* caller that ran it and every caller waiting on that load receive the
\* error (a panic as a "loader panics" error), no entry is inserted,
\* on_added is not invoked, and the load leaves entries and ordering as they
\* were; a caller woken with an error returns that error.
C11_LoaderFailure ==
  [][/\ C11_Step
     /\ \A t \in Threads :
          (pc[t] = "woken" /\ pc'[t] # "woken")
          => ret'[t].err = loc[t].err /\ ret'[t].val = loc[t].val]_vars

\* A load of key 1 panicked while another caller was waiting on it and
\* key 2 was stored: both callers have returned the error, the third
\* thread's Set(2, 1) stands, and there is no entry for key 1.
C11_Witness ==
  /\ cnt.load = 1 /\ flight = <<>>
  /\ \E t, u \in Threads :
       /\ t # u
       /\ pc[t] = "finished" /\ ret[t].name = "Get" /\ ret[t].key = 1
       /\ pc[u] = "finished" /\ ret[u].name = "Get" /\ ret[u].key = 1
       /\ ret[t].err = "loader panics" /\ ret[u].err = "loader panics"
  /\ DOMAIN c.items = {2}
  /\ misses = 2 /\ hits = 0

\* =============================================================== C12
\* One thread, whose calls are recorded, uses a cache of size 2 while time
\* passes: it writes three keys with SetWithExpire, or two keys with Set and
\* SetWithExpire, and reads one once; every callback is set and the
\* serialization hooks fail on value 2.
SerConfigs ==
  UNION {
    {[Observed EXCEPT !.policy = p, !.size = MaxSize, !.vals = Vals,
                      !.serde = TRUE, !.serFail = {2},
                      !.history = TRUE, !.threads = {1},
                      !.lookups = 1, !.ops = {"SetWithExpire", "Get"}],
     [Observed EXCEPT !.policy = p, !.size = MaxSize, !.keys = {1, 2}, !.vals = Vals,
                      !.serde = TRUE, !.serFail = {2},
                      !.history = TRUE, !.threads = {1},
                      !.lookups = 1, !.ops = {"Set", "SetWithExpire", "Get"}]} :
    p \in {"lru", "arc"}}

InitSer == InitWith(SerConfigs)

NextSer ==
  \/ \E t \in Threads, k \in Keys, v \in Vals :
       \/ Set(t, k, v)
       \/ \E ttl \in TTLs : SetWithExpire(t, k, v, ttl)
       \/ Unlock(t)
  \/ Reads
  \/ Tick

SpecSer == InitSer /\ [][NextSer]_vars

\* A write of thread t whose serialization fails, from call to return.
C12_Step ==
  \A t \in Threads :
    LET writing == op'[t].name \in {"Set", "SetWithExpire"}
    IN  /\ (pc[t] = "idle" /\ pc'[t] = "unlock" /\ writing
            /\ op'[t].val \in cfg.serFail)
           => /\ loc'[t].err = "serialize"
              /\ c' = c
              /\ invoked' = <<<<"serialize", op'[t].key, op'[t].val>>>>
        /\ (pc[t] = "unlock" /\ pc'[t] # "unlock" /\ loc[t].err = "serialize")
           => /\ ret'[t].err = "serialize"
              /\ ret'[t].name = op[t].name
              /\ c' = c

\* C12: when serialize(k, v) returns an error during Set or SetWithExpire,
\* the operation returns that error and the cache is unchanged: entries,
\* values, expirations, order, ARC's lists and p are as before, and no
\* function but serialize is invoked.
C12_SerializeFailure == [][C12_Step]_vars

\* SetWithExpire of a key without an entry has just failed to serialize on
\* a full ARC cache that holds the key as a ghost in B2 and whose target p
\* is above 0: a success would have evicted an entry, moved the key to T2
\* and lowered p.
C12_Witness ==
  /\ cfg.policy = "arc" /\ cfg.serde
  /\ pc[1] = "unlock" /\ op[1].name = "SetWithExpire"
  /\ loc[1].err = "serialize"
  /\ op[1].key \notin DOMAIN c.items
  /\ Len(c.t1) + Len(c.t2) = cfg.size
  /\ Has(c.b2, op[1].key) /\ c.part > 0

\* =============================================================== C13
\* Threads that each make one call, GetIFPresent(1) or Get(1), on a cache
\* whose loader succeeds. Every goroutine that can take a step eventually
\* takes one: the detached load is scheduled and the lock holders release.
PresentConfigs ==
  {[BaseCfg EXCEPT !.policy = p, !.loader = "getter", !.history = TRUE,
                   !.once = TRUE, !.threads = Threads, !.keys = {1},
                   !.lookups = NumThreads, !.ops = {"GetIFPresent", "Get"}] :
     p \in {"lru", "arc"}}

InitPresent == InitWith(PresentConfigs)

NextPresent ==
  \/ \E t \in Threads, k \in Keys : GetIFPresent(t, k)
  \/ Reads
  \/ Loads

SpecPresent ==
  /\ InitPresent /\ [][NextPresent]_vars
  /\ WF_vars(Loads)
  /\ WF_vars(\E t \in Threads : Looked(t) \/ Count(t))

\* Thread t, in GetIFPresent, leaves the load path in this step.
LeavesLoadPath(t) ==
  /\ op[t].name = "GetIFPresent"
  /\ pc[t] = "do_table" /\ pc'[t] = "finished"

\* C13 as stated: a GetIFPresent whose lookup found no live entry returns
\* KeyNotFound in that call, and starts a detached load if none is in flight.
C13_AlwaysKeyNotFound ==
  [][\A t \in Threads :
       LeavesLoadPath(t)
       => /\ ret'[t].err = "KeyNotFound"
          /\ (op[t].key \notin DOMAIN flight \/ flight[op[t].key].st = "done")
             => /\ op[t].key \in DOMAIN flight'
                /\ flight'[op[t].key].st = "created"]_vars

\* What GetIFPresent does when it leaves the load path.
C13_Step ==
  \A t \in Threads :
    LeavesLoadPath(t) =>
      LET k == op[t].key
      IN  IF loc[t].found
          THEN /\ ret'[t].err = "nil" /\ ret'[t].val = loc[t].val
               /\ flight' = flight
          ELSE /\ ret'[t].err = "KeyNotFound"
               /\ IF k \in DOMAIN flight THEN flight' = flight
                  ELSE flight' = Put(flight, k, NewCall(Detached(k)))

\* C13, amended: GetIFPresent never waits for the loader and never runs it
\* in the calling thread. When its lookup found no live entry it returns
\* KeyNotFound, unless the entry was inserted before it entered the load
\* path, and then it returns the entry's value; when no call for k is in
\* the single-flight table it starts exactly one detached load, otherwise
\* none; a detached load that was started eventually has its value in the
\* cache, and a GetIFPresent that returns a value returns the loaded one.
C13_NeverWaits ==
  /\ [](\A t \in Threads :
          op[t].name = "GetIFPresent" => pc[t] \notin {"wait", "woken", "run"})
  /\ [][C13_Step]_vars
  /\ [](\A t \in Threads :
          (pc[t] = "finished" /\ ret[t].name = "GetIFPresent" /\ ret[t].err = "nil")
          => ret[t].val = loaderExpireFunc(ret[t].key, 1))
  /\ \A k \in Keys :
       (k \in DOMAIN flight /\ flight[k].owner = Detached(k) /\ flight[k].st = "created")
       ~> (k \in DOMAIN c.items /\ c.items[k].value = loaderExpireFunc(k, 1))

\* A GetIFPresent(1) on the empty cache returned KeyNotFound and its
\* detached load has run to the end; a later GetIFPresent(1) was a hit and
\* returned the loaded value.
C13_Witness ==
  /\ cnt.load = 1 /\ flight = <<>> /\ mu = Free
  /\ hits = 1 /\ misses = 1
  /\ \E t, u \in Threads :
       /\ pc[t] = "finished" /\ ret[t].name = "GetIFPresent"
       /\ ret[t].err = "KeyNotFound"
       /\ pc[u] = "finished" /\ ret[u].name = "GetIFPresent"
       /\ ret[u].err = "nil" /\ ret[u].val = 1

\* =============================================================== C14
\* C14: when Purge returns, the policy state is that of a freshly built
\* cache: the entries and the recency list (LRU), the entries, T1, T2, B1,
\* B2 and the target p (ARC) are as Build() leaves them.
C14_PurgeReinitializes ==
  \A t \in Threads :
    (pc[t] = "unlock" /\ op[t].name = "Purge") => c = init

\* =============================================================== C15
\* One thread, whose calls are recorded, uses an LRU cache: of size
\* MaxSize + 1 on NumKeys + 1 keys with Set and Get; of size MaxSize with
\* every write that touches, Get and Has; of size MaxSize on two keys with
\* Set and every snapshot; and, with a loader, through Get alone. Time
\* passes, and the entries SetWithExpire wrote expire.
OrderKeys == 1..(NumKeys + 1)

OrderConfigs ==
  {[Observed EXCEPT !.history = TRUE, !.threads = {1}, !.size = MaxSize + 1,
                    !.keys = OrderKeys, !.ops = {"Set", "Get"}],
   [Observed EXCEPT !.history = TRUE, !.threads = {1}, !.size = MaxSize,
                    !.ops = {"Set", "SetWithExpire", "Get", "Has"}],
   [Observed EXCEPT !.history = TRUE, !.threads = {1}, !.size = MaxSize,
                    !.keys = {1, 2},
                    !.ops = {"Set", "Has", "Len", "Keys", "GetALL"}],
   [Observed EXCEPT !.history = TRUE, !.threads = {1}, !.size = MaxSize,
                    !.loader = "getter", !.lookups = NumKeys + 1, !.ops = {"Get"}]}

InitOrder == InitWith(OrderConfigs)

NextOrder ==
  \/ \E t \in Threads, k \in OrderKeys :
       \/ \E v \in Vals : Set(t, k, v)
       \/ \E v \in Vals, ttl \in TTLs : SetWithExpire(t, k, v, ttl)
       \/ Unlock(t)
       \/ Get(t, k)
       \/ Looked(t)
       \/ Count(t)
       \/ HasKey(t, k)
       \/ \E b \in BOOLEAN : LenOp(t, b) \/ KeysOp(t, b) \/ GetALL(t, b)
       \/ DoLookup(t)
       \/ DoTable(t)
  \/ \E k \in Keys :
       \/ LoaderCall(k)
       \/ LoaderReturn(k, "nil")
       \/ Insert(k)
       \/ CallDone(k)
       \/ CallDelete(k)
  \/ Tick

SpecOrder == InitOrder /\ [][NextOrder]_vars

\* The key a step touches, if it touches one: the key of a Set or a
\* SetWithExpire, of a lookup that hits, or of a loader insert.
Touched ==
  {k \in OrderKeys :
     \/ \E t \in Threads :
          /\ pc[t] = "idle" /\ pc'[t] = "unlock"
          /\ op'[t].name \in {"Set", "SetWithExpire"} /\ op'[t].key = k
     \/ \E t \in Threads :
          /\ pc[t] \in {"idle", "do"} /\ pc'[t] \in {"looked", "do_table"}
          /\ op'[t].key = k /\ loc'[t].found
     \/ /\ k \in DOMAIN flight /\ flight[k].st = "loaded"
        /\ k \in DOMAIN flight' /\ flight'[k].st = "inserted"}

\* The key whose entry a step's lookup finds expired, if it finds one.
Lapsed ==
  {k \in OrderKeys :
     \E t \in Threads :
       /\ pc[t] \in {"idle", "do"} /\ pc'[t] \in {"looked", "do_table"}
       /\ op'[t].key = k /\ ~loc'[t].found /\ k \in DOMAIN c.items}

\* The entries a touch of key k removes: the last of the recency list when k
\* has no entry and the cache is full.
Victims(k) ==
  IF k \notin DOMAIN c.items /\ Len(c.evictList) = cfg.size
  THEN {Back(c.evictList)} ELSE {}

C15_Step ==
  /\ \A k \in Touched :
       /\ c'.evictList =
            <<k>> \o SelectSeq(c.evictList, LAMBDA x : x # k /\ x \notin Victims(k))
       /\ DOMAIN c'.items = (DOMAIN c.items \ Victims(k)) \cup {k}
       /\ CountOf(invoked', "on_evicted") = Cardinality(Victims(k))
       /\ \A v \in Victims(k) :
            \E i \in 1..Len(invoked') :
              invoked'[i] = <<"on_evicted", v, c.items[v].value>>
  /\ \A k \in Lapsed :
       /\ IsExpired(c.items[k], now)
       /\ c'.evictList = SelectSeq(c.evictList, LAMBDA x : x # k)
       /\ DOMAIN c'.items = DOMAIN c.items \ {k}
       /\ invoked' = <<<<"on_evicted", k, c.items[k].value>>>>
  /\ (Touched = {} /\ Lapsed = {}) => c' = c
  /\ c.evictList # <<>> =>
       (/\ Len(c.evictList) = Cardinality(DOMAIN c.items)
        /\ \A i \in 1..Len(c.evictList) : c.evictList[i] \in DOMAIN c.items)

\* C15: the recency list of an LRU cache holds the stored keys in the order
\* of their most recent touch, the latest first: a Set, a SetWithExpire, a
\* Get hit or a loader insert of a key puts it at the front and keeps the
\* order of the others; a lookup that finds its key's entry expired takes
\* that entry out and keeps the order of the others; no other step (Has,
\* Keys, Len, GetALL, a miss without an entry, the passing of time) changes
\* the list; when the touched key is new and the cache is full, exactly one
\* entry goes, the last of the list, which is the one touched longest ago,
\* and on_evicted is invoked for it exactly once.
C15_LRUOrder == [][C15_Step]_vars

\* Size 3: keys 1, 2 and 3 are stored, 2 before 3; the last completed call
\* is a Get of key 1 that hit; Set 4 has just removed key 2.
C15_Witness ==
  /\ cfg.size = MaxSize + 1
  /\ pc[1] = "unlock" /\ op[1].name = "Set" /\ op[1].key = 4
  /\ ret[1].name = "Get" /\ ret[1].key = 1 /\ ret[1].err = "nil"
  /\ c.evictList = <<4, 1, 3>>
  /\ invoked = <<<<"on_evicted", 2, 1>>, <<"on_added", 4, 1>>>>

\* =============================================================== C16
\* One thread uses an ARC cache without callbacks: of size MaxSize on
\* 2 * MaxSize + 1 keys with Set and Get; of size 1 with Set, SetWithExpire,
\* Get and Remove, while time passes; and of size 1 with a loader whose
\* values expire, through Get and Remove.
GhostKeys == 1..(2 * MaxSize + 1)

GhostConfigs ==
  {[BaseCfg EXCEPT !.policy = "arc", !.size = MaxSize, !.threads = {1},
                   !.keys = GhostKeys, !.vals = {1}, !.ops = {"Set", "Get"}],
   [BaseCfg EXCEPT !.policy = "arc", !.size = 1, !.threads = {1}, !.vals = {1},
                   !.ops = {"Set", "SetWithExpire", "Get", "Remove"}],
   [BaseCfg EXCEPT !.policy = "arc", !.size = 1, !.threads = {1}, !.vals = {1},
                   !.loader = "getter", !.loaderTTL = MaxTTL,
                   !.lookups = NumKeys + 1, !.ops = {"Get", "Remove"}]}

InitGhost == InitWith(GhostConfigs)

NextGhost ==
  \/ \E t \in Threads, k \in GhostKeys :
       \/ \E v \in Vals : Set(t, k, v)
       \/ \E v \in Vals, ttl \in TTLs : SetWithExpire(t, k, v, ttl)
       \/ Remove(t, k)
       \/ Unlock(t)
       \/ Get(t, k)
       \/ Looked(t)
       \/ DoLookup(t)
       \/ DoTable(t)
  \/ \E k \in Keys :
       \/ LoaderCall(k)
       \/ LoaderReturn(k, "nil")
       \/ Insert(k)
       \/ CallDone(k)
       \/ CallDelete(k)
  \/ Tick

SpecGhost == InitGhost /\ [][NextGhost]_vars

\* C16: in every reachable state of an ARC cache, after any sequence of Set,
\* SetWithExpire, Get (a Get that finds an expired entry too), Remove and
\* loader inserts, the four lists together hold at most 2 * size keys.
C16_ARCTotalBound ==
  cfg.policy = "arc" =>
    Len(c.t1) + Len(c.t2) + Len(c.b1) + Len(c.b2) <= 2 * cfg.size

\* A Set has just acted on a cache of the largest size; the four lists hold
\* 2 * size keys, the two ghost lists size of them, and more keys than that
\* have been used.
C16_Witness ==
  /\ cfg.size = MaxSize
  /\ pc[1] = "unlock" /\ op[1].name = "Set"
  /\ Len(c.t1) + Len(c.t2) = MaxSize
  /\ Len(c.b1) > 0 /\ Len(c.b2) > 0
  /\ Len(c.b1) + Len(c.b2) = MaxSize
  /\ hits = MaxLookups

\* =============================================================== C17
\* C17: in every reachable state of an ARC cache |T1| + |B1| is at most the
\* size.
C17_ARCRecencyBound ==
  cfg.policy = "arc" => Len(c.t1) + Len(c.b1) <= cfg.size

\* =============================================================== C18
\* The number of times key k appears in list s.
Occurrences(s, k) == Cardinality({i \in 1..Len(s) : s[i] = k})

\* C18: whenever the cache lock is free, an LRU cache has a key in its index
\* iff the key is in the recency list, where it appears once; an ARC cache
\* has a key in its entries iff the key is in T1 or T2, in exactly one of
\* them and once, and no key that has an entry is in B1 or B2.
C18_IndexConsistency ==
  mu = Free =>
    \A k \in Keys :
      /\ cfg.policy = "lru" =>
           Occurrences(c.evictList, k) = IF k \in DOMAIN c.items THEN 1 ELSE 0
      /\ cfg.policy = "arc" =>
           /\ Occurrences(c.t1, k) + Occurrences(c.t2, k)
                = IF k \in DOMAIN c.items THEN 1 ELSE 0
           /\ k \in DOMAIN c.items => ~Has(c.b1, k) /\ ~Has(c.b2, k)

\* An ARC cache, its lock free, with an entry in T1, an entry in T2 and a
\* ghost in B2, after a Set that hit a ghost.
C18_Witness ==
  /\ cfg.policy = "arc" /\ mu = Free
  /\ Len(c.t1) = 1 /\ Len(c.t2) = 1 /\ Len(c.b2) = 1
  /\ c.part > 0

\* =============================================================== C19
\* An entry that is live at instant t according to the claim: it has no
\* expiration, or t is before its expiration.
LiveAt(item, t) == item.expiration = NoExp \/ t < item.expiration

C19_Step ==
  \A t \in Threads :
    /\ (pc[t] = "idle" /\ pc'[t] = "looked" /\ loc'[t].found)
         => LiveAt(c.items[op'[t].key], now)
    /\ (pc[t] = "idle" /\ pc'[t] = "idle" /\ ret'[t].name = "Has"
           /\ <<ret'[t], prev'[t]>> # <<ret[t], prev[t]>> /\ ret'[t].val = 1)
         => LiveAt(c.items[ret'[t].key], wall)

\* C19: an entry with an expiration is live only while now < expiration: a
\* Get that hits, and a Has that returns true, found an entry whose
\* expiration, if it has one, is after the instant of the call.
C19_ExpirationBoundary == [][C19_Step]_vars

\* =============================================================== C20
\* Caches with on_evicted set, whose callbacks are recorded with their
\* arguments: one thread writes, reads, removes and purges a cache of size 1
\* on one key while time passes; one thread sets and reads three keys in a
\* cache of the largest size; two threads read two keys through a loader;
\* one thread reads two keys through a loader and removes them.
\* All but the first read a clock that stands still.
EvictConfigs ==
  UNION {
    {[Recorded EXCEPT !.policy = p, !.evictedFunc = TRUE,
                      !.ops = {"Set", "SetWithExpire", "Get", "Remove", "Purge"}],
     [Recorded EXCEPT !.policy = p, !.evictedFunc = TRUE, !.size = MaxSize,
                      !.keys = Keys, !.vals = {1}, !.clock = "fake",
                      !.ops = {"Set", "Get"}],
     [Recorded EXCEPT !.policy = p, !.evictedFunc = TRUE, !.keys = {1, 2},
                      !.loader = "getter", !.threads = Sharers, !.clock = "fake",
                      !.lookups = NumKeys, !.ops = {"Get"}],
     [Recorded EXCEPT !.policy = p, !.evictedFunc = TRUE, !.keys = {1, 2},
                      !.loader = "getter", !.clock = "fake",
                      !.lookups = NumKeys, !.ops = {"Get", "Remove"}]} :
    p \in {"lru", "arc"}}

InitEvict == InitWith(EvictConfigs)

NextEvict == Writes \/ Reads \/ Loads \/ Tick

SpecEvict == InitEvict /\ [][NextEvict]_vars

\* The user functions a step invokes: those of the critical section it runs.
StepCalls == IF mu = Free /\ mu' # Free THEN invoked' ELSE <<>>

\* The entries that leave the cache in a step.
Gone == DOMAIN c.items \ DOMAIN c'.items

\* The step is the body of a Purge.
IsPurge == \E t \in Threads : pc[t] = "idle" /\ pc'[t] = "unlock" /\ op'[t].name = "Purge"

C20_Step ==
  IF IsPurge THEN CountOf(StepCalls, "on_evicted") = 0
  ELSE /\ CountOf(StepCalls, "on_evicted") = Cardinality(Gone)
       /\ \A k \in Gone :
            \E i \in 1..Len(StepCalls) :
              StepCalls[i] = <<"on_evicted", k, c.items[k].value>>

\* C20: in every step but a Purge, on_evicted is invoked once for each entry
\* that leaves the cache (by a capacity eviction, by a Get that finds it
\* expired, by Remove), with the entry's key and stored value, and for
\* nothing else: a step from which every entry stays (an update, an insert
\* into a cache that is not full, a Get that joins a load) invokes it not at
\* all, and neither does Purge.
C20_EvictedOnRemoval == [][C20_Step]_vars

\* A Get has just found the entry of key 1, which held value 2, expired: it
\* removed it, invoked on_evicted(1, 2) and missed.
C20_Witness ==
  /\ cfg.policy = "arc"
  /\ pc[1] = "looked" /\ op[1].key = 1 /\ ~loc[1].found
  /\ invoked = <<<<"on_evicted", 1, 2>>>>
  /\ 1 \notin DOMAIN c.items

\* =============================================================== C21
\* The keys a step takes from ghost list b into T2: the ghost hits of a Set
\* or of a loader insert.
Rehit(b) == {k \in Keys : Has(c[b], k) /\ ~Has(c.t2, k) /\ Has(c'.t2, k)}

\* |T1| + |T2| = size before the step.
WasFull == Len(c.t1) + Len(c.t2) = cfg.size

\* The claim as stated: a hit in B1 raises p, a hit in B2 lowers it.
C21_Strict ==
  /\ Rehit("b1") # {} => c'.part > c.part
  /\ Rehit("b2") # {} => c'.part < c.part

C21_AlwaysAdapts == [][C21_Strict]_vars

C21_Step ==
  /\ Rehit("b1") # {} =>
       /\ c'.part >= c.part
       /\ c'.part > c.part <=> (WasFull /\ c.part < cfg.size)
  /\ Rehit("b2") # {} =>
       /\ c'.part <= c.part
       /\ c'.part < c.part <=> (WasFull /\ c.part > 0)
  /\ c'.part \in 0..cfg.size

\* C21: a Set or a loader insert of a key that is in B1 never lowers the
\* target p, and raises it exactly when the cache is full and p is below the
\* size; of a key that is in B2 it never raises p, and lowers it exactly
\* when the cache is full and p is above 0; p stays within 0..size.
C21_AdaptationDirection == [][C21_Step]_vars

\* Size 2: a Set of key k has just hit a ghost on a full cache: it evicted
\* an entry, k is at the front of T2, and p is 1, which a hit in B1 reaches
\* only from 0 and a hit in B2 only from 2.
C21_Witness ==
  /\ cfg.policy = "arc" /\ cfg.size = 2
  /\ pc[1] = "unlock" /\ op[1].name = "Set"
  /\ c.t2 # <<>> /\ Head(c.t2) = op[1].key
  /\ CountOf(invoked, "on_evicted") = 1
  /\ c.part = 1

\* =============================================================== C22
\* The keys a step inserts as brand-new keys: in none of the four lists
\* before it, at the front of T1 after it.
BrandNew ==
  {k \in Keys :
     /\ ~Has(c.t1, k) /\ ~Has(c.t2, k) /\ ~Has(c.b1, k) /\ ~Has(c.b2, k)
     /\ c'.t1 # <<>> /\ Head(c'.t1) = k}

C22_Step ==
  (cfg.policy = "arc" /\ BrandNew # {} /\ Len(c.t1) + Len(c.b1) = cfg.size) =>
    IF Len(c.t1) < cfg.size
    THEN ~Has(c'.b1, Back(c.b1))
    ELSE /\ ~Has(c'.t1, Back(c.t1))
         /\ Back(c.t1) \notin DOMAIN c'.items
         /\ \E i \in 1..Len(invoked') :
              invoked'[i] = <<"on_evicted", Back(c.t1), c.items[Back(c.t1)].value>>

\* C22: an ARC insert of a key that is in none of the four lists, made when
\* |T1| + |B1| = size, whether or not the cache is full: if |T1| < size the
\* tail of B1 is dropped (it is in B1 no more), else the tail of T1 is
\* dropped, its entry removed and on_evicted invoked for it; the key is then
\* at the front of T1.
C22_BrandNewKey == [][C22_Step]_vars

\* =============================================================== C23
\* Concurrent Gets, one per thread, on an LRU or ARC cache whose loader
\* returns the key and whose serialization hook fails on value 2.
LoadSerConfigs ==
  {[BaseCfg EXCEPT !.policy = p, !.loader = "getter", !.serde = TRUE,
                   !.serFail = {2}, !.keys = {1, 2}, !.history = TRUE,
                   !.once = TRUE, !.threads = Threads, !.lookups = NumThreads,
                   !.ops = {"Get"}] :
     p \in {"lru", "arc"}}

InitLoadSer == InitWith(LoadSerConfigs)

SpecLoadSer == InitLoadSer /\ [][NextLoad]_vars

\* C23: a Get of a key whose loaded value the serialization hook refuses
\* returns the loaded value and no error, to the caller that ran the loader
\* and to those that waited for it, and no entry for the key is stored.
C23_ValueDespiteFailedInsert ==
  /\ \A t \in cfg.threads :
       (pc[t] = "finished" /\ ret[t].key \in cfg.serFail) =>
         ret[t].err = "nil" /\ ret[t].val = loaderExpireFunc(ret[t].key, 1)
  /\ \A k \in cfg.serFail : k \notin DOMAIN c.items

\* =============================================================== C24
\* Concurrent Get(1) calls, one per thread, on an LRU or ARC cache whose
\* loader returns a value, returns an error or panics; every thread that can
\* take a step eventually takes one.
CompletionConfigs ==
  {[BaseCfg EXCEPT !.policy = p, !.loader = "getter",
                   !.outcomes = {"nil"} \cup Failures, !.keys = {1},
                   !.history = TRUE, !.once = TRUE, !.threads = Threads,
                   !.lookups = NumThreads, !.ops = {"Get"}] :
     p \in {"lru", "arc"}}

InitCompletion == InitWith(CompletionConfigs)

SpecCompletion ==
  /\ InitCompletion /\ [][NextLoad]_vars
  /\ WF_vars(Loads)
  /\ WF_vars(\E t \in Threads : Looked(t) \/ Count(t))

\* The loader invocation of the pending call for key k has returned.
LoadReturned(k) == k \in DOMAIN flight /\ flight[k].st \notin {"created", "loading"}

C24_Step ==
  \A t \in Threads :
    LET k == op[t].key
    IN  /\ (pc[t] \in {"run", "wait"} /\ pc'[t] \notin {"run", "wait"})
             => LoadReturned(k)
        /\ (pc[t] = "wait" /\ pc'[t] = "woken")
             => /\ flight[k].st # "done" /\ flight'[k].st = "done"
                /\ loc'[t].val = flight[k].val /\ loc'[t].err = flight[k].err
        /\ (pc[t] = "do_table" /\ pc'[t] = "run")
             => /\ k \notin DOMAIN flight
                /\ flight'[k].st = "created"

\* C24: a Get that started or joined a load never returns before the
\* loader invocation has returned; the waiters of a call are released in
\* one step, which completes the call, and none is waiting on a completed
\* call; once the loader has returned, with a value, an error or a panic,
\* every Get that started or joined the load returns and the pending record
\* is removed; a Get that then misses and finds no record starts a new load.
C24_LoadCompletion ==
  /\ [][C24_Step]_vars
  /\ [](\A t \in Threads :
          pc[t] = "wait" =>
            /\ LoadReturned(op[t].key) => flight[op[t].key].st # "done"
            /\ op[t].key \in DOMAIN flight /\ t \in flight[op[t].key].waiters)
  /\ \A t \in Threads :
       (pc[t] \in {"run", "wait"} /\ LoadReturned(op[t].key)) ~> pc[t] = "finished"
  /\ \A k \in Keys : LoadReturned(k) ~> k \notin DOMAIN flight

\* The first load of key 1 failed and its caller has returned the error;
\* the record was removed, and a later Get(1) has invoked the loader again,
\* which returned a value while a third caller waits for it.
C24_Witness ==
  /\ cnt.load = 2
  /\ 1 \in DOMAIN flight /\ flight[1].st = "loaded"
  /\ \E t, u, w \in Threads :
       /\ pc[t] = "finished" /\ ret[t].err \in Failures
       /\ pc[u] = "run" /\ flight[1].owner = u
       /\ pc[w] = "wait" /\ w \in flight[1].waiters

\* =============================================================== C25
\* The list of the cache that holds key k after the step.
ListOf(k) ==
  IF cfg.policy = "lru" THEN c'.evictList
  ELSE IF Has(c'.t1, k) THEN c'.t1 ELSE c'.t2

C25_Step ==
  \A t \in Threads :
    (/\ pc[t] = "idle" /\ pc'[t] = "unlock"
     /\ op'[t].name = "Set" /\ op'[t].key \in DOMAIN c.items)
    => LET k == op'[t].key
       IN  /\ DOMAIN c'.items = DOMAIN c.items
           /\ c'.items[k].value = op'[t].val
           /\ \A j \in DOMAIN c.items \ {k} : c'.items[j] = c.items[j]
           /\ CountOf(invoked', "on_evicted") = 0
           /\ ListOf(k) # <<>> /\ Head(ListOf(k)) = k
           /\ cfg.expiration # NoTTL => c'.items[k].expiration = now + cfg.expiration

\* C25: a Set on a key that has an entry, LRU or ARC, replaces the value in
\* place: the stored keys and the other entries are unchanged, on_evicted is
\* not invoked, the key is then the first of the list that holds it, and the
\* default TTL, if one is configured, is applied again.
C25_ReplaceInPlace == [][C25_Step]_vars

\* =============================================================== C26
\* C26: in every reachable state of an ARC cache, whatever operation comes
\* next (Set, SetWithExpire or a loader insert, Get, Remove, Purge, on any
\* key), it removes the tail of no empty list and dereferences no missing
\* entry; every key of T1 and T2, the lists victims are taken from, has an
\* entry; and a ghost list that holds a key, whose length divides in the
\* adaptation of p, is not empty.
C26_ARCNeverFaults ==
  cfg.policy = "arc" =>
    /\ \A k \in Keys :
         /\ \A v \in Vals : ~set(Work(c), k, v).fault
         /\ ~lookup(Work(c), k).fault
         /\ ~remove(Work(c), k).fault
         /\ (Has(c.t1, k) \/ Has(c.t2, k)) => k \in DOMAIN c.items
         /\ Has(c.b1, k) => Len(c.b1) > 0
         /\ Has(c.b2, k) => Len(c.b2) > 0
    /\ \A order \in KeyOrders(DOMAIN c.items) : ~purge(Work(c), order).fault

\* A Set on a full ARC cache of the largest size has just run replace, which
\* took its victim from the tail of T2, removed the victim's entry and put
\* its key in B2.
C26_Witness ==
  /\ cfg.policy = "arc" /\ cfg.size = MaxSize
  /\ \E t \in Threads : pc[t] = "unlock" /\ op[t].name = "Set"
  /\ invoked = <<"on_evicted", "on_added">>
  /\ c.b2 # <<>> /\ Head(c.b2) \notin DOMAIN c.items
  /\ Len(c.t1) + Len(c.t2) = MaxSize

\* =============================================================== C27
C27_Step ==
  \A k \in Keys :
    /\ (/\ k \in DOMAIN flight /\ flight[k].st = "loaded"
        /\ k \in DOMAIN flight' /\ flight'[k].st = "inserted")
       => /\ k \in DOMAIN c'.items
          /\ c'.items[k].value = flight[k].val
          /\ flight'[k].val = flight[k].val /\ flight'[k].err = "nil"
    /\ (/\ k \in DOMAIN flight /\ flight[k].st = "done" /\ flight[k].err = "nil"
        /\ k \notin DOMAIN flight' /\ flight[k].owner \in Threads)
       => /\ ret'[flight[k].owner].err = "nil"
          /\ ret'[flight[k].owner].val = loaderExpireFunc(k, 1)

\* C27: the insert of a successful load stores the loaded value whatever
\* entry the key has by then, so that a Set(k, w) that completed after the
\* load started is overwritten, and the Get that ran the loader returns the
\* loaded value.
C27_LoaderInsertWins == [][C27_Step]_vars

\* The load of key 2 has just inserted its value 2; a Set(2, 1) of another
\* thread has completed, after the load's own lookup missed and before the
\* insert: its value 1 is overwritten.
C27_Witness ==
  /\ cnt.load = 1
  /\ 2 \in DOMAIN flight /\ flight[2].st = "inserted" /\ flight[2].val = 2
  /\ c.items[2].value = 2
  /\ \E u \in Threads :
       /\ pc[u] = "finished" /\ ret[u].name = "Set"
       /\ ret[u].key = 2 /\ ret[u].arg = 1
  /\ \A u \in Threads : pc[u] = "finished" => ret[u].key = 2

\* --------------------------------------------------------- sanity
TypeOK ==
  /\ mu \in Threads \cup {Free} \cup {Detached(k) : k \in Keys}
  /\ gmu \in Threads \cup {Free}
  /\ hits \in 0..MaxLookups /\ misses \in 0..MaxLookups
  /\ DOMAIN c.items \subseteq Keys
  /\ DOMAIN flight \subseteq Keys

\* No operation the cache could be asked for next dereferences nil.
NoFaultAhead ==
  mu = Free =>
    \A k \in Keys :
      /\ ~set(Work(c), k, 1).fault
      /\ ~lookup(Work(c), k).fault
      /\ ~remove(Work(c), k).fault

=============================================================================
